---------------------------- MODULE Spec2Model ----------------------------
(***************************************************************************)
(* State-machine model of the BJJ CRM import and backup pipelines:         *)
(*   - GoogleDriveService._import_students (update-on-match, one commit    *)
(*     after the row loop, session created with autoflush=False);          *)
(*   - CSVImportService.import_students_from_csv (skip_duplicates, one     *)
(*     commit per created student through StudentController);              *)
(*   - BackupService.create_backup / list_backups / restore_backup,        *)
(*     delete_backup and cleanup_old_backups;                              *)
(*   - GoogleDriveService._import_trainings and _import_payments;          *)
(*   - BeltExamController.create_belt_exam;                                *)
(*   - the format validators and CSVImportService.detect_encoding.         *)
(*                                                                         *)
(* Text values are sequences of one-character strings so that str.strip()  *)
(* is computed; Python's None is the one-element sequence <<"None">>.      *)
(***************************************************************************)
EXTENDS Integers, Sequences, FiniteSets, TLC

VARIABLES students, gd, csv, clock, liveDb, appFiles, backupDir, safety, bk,
          trainings, ti, call, payments, pi, exams, bx

vars == <<students, gd, csv, clock, liveDb, appFiles, backupDir, safety, bk,
          trainings, ti, call, payments, pi, exams, bx>>
importVars == <<students, gd, csv>>
backupVars == <<clock, liveDb, appFiles, backupDir, safety, bk>>
trainingVars == <<trainings, ti>>
pureVars == <<call>>
paymentVars == <<payments, pi>>
examVars == <<exams, bx>>

---------------------------------------------------------------------------
(* Bounds of the model *)

\* data rows read from one CSV source
MaxRows == 3
\* clock seconds that may pass in one behaviour
MaxClock == 1
\* BackupService calls in one behaviour
MaxCalls == 3
\* edits of the live database in one behaviour
MaxEdits == 1
\* steps of BackupService calls that may fail in one behaviour
MaxFaults == 1
\* days that may pass in one behaviour
MaxDays == 1
\* bytes of a file prefix handed to detect_encoding
MaxPrefix == 2
\* create_belt_exam calls in one behaviour
MaxExams == 3

---------------------------------------------------------------------------
(* Python values *)

None == <<"None">>
Empty == <<>>

\* bool(v) for a str or None
Truthy(v) == v # None /\ v # Empty

RECURSIVE LStrip(_)
LStrip(s) == IF s # <<>> /\ Head(s) = " " THEN LStrip(Tail(s)) ELSE s

RECURSIVE RStrip(_)
RStrip(s) == IF s # <<>> /\ s[Len(s)] = " " THEN RStrip(SubSeq(s, 1, Len(s) - 1)) ELSE s

\* str.strip()
Strip(s) == RStrip(LStrip(s))

\* v or None
OrNone(v) == IF v = Empty THEN None ELSE v

---------------------------------------------------------------------------
(* The students table (app.models.Student) *)

NameA == <<"A">>
NameB == <<"B">>
NameX == <<"X">>
NameSp == <<" ">>
Phone1 == <<"1">>
Phone2 == <<"2">>
Phone3 == <<"3">>
Phone1Sp == <<" ", "1">>
TgA == <<"@", "a">>
TgB == <<"@", "b">>
TgXyz == <<"@", "x", "y", "z">>
TgTest == <<"@", "t", "e", "s", "t">>
TgExample == <<"@", "e", "x", "a", "m", "p", "l", "e">>
Mail0 == <<"m", "0">>
Mail1 == <<"m", "1">>
White == <<"W", "h", "i", "t", "e">>
Blue == <<"B", "l", "u", "e">>
Note0 == <<"n", "0">>
Note1 == <<"n", "1">>

StudentColumns == {"first_name", "last_name", "phone", "telegram_id", "email", "current_belt", "notes"}

Student(id, fn, ln, ph, tg, em, belt, nt) ==
    [id |-> id, first_name |-> fn, last_name |-> ln, phone |-> ph, telegram_id |-> tg,
     email |-> em, current_belt |-> belt, notes |-> nt]

Stored1 == Student(1, NameX, NameX, Phone1, TgA, Mail0, White, Note0)
Stored2 == Student(2, NameX, NameB, Phone2, None, None, White, None)

\* the table before an import starts, rows in id order
InitStores == {<<>>, <<Stored1>>, <<Stored1, Stored2>>}

\* Column(..., unique=True) on phone and telegram_id (NULLs never collide),
\* nullable=False on first_name, last_name, phone
ConstraintsOK(tbl) ==
    /\ \A i \in DOMAIN tbl :
          tbl[i].first_name # None /\ tbl[i].last_name # None /\ tbl[i].phone # None
    /\ \A i, j \in DOMAIN tbl :
          i # j => /\ tbl[i].phone # tbl[j].phone
                   /\ (tbl[i].telegram_id # None => tbl[i].telegram_id # tbl[j].telegram_id)

\* db.query(Student).filter(Student.phone == phone).first(): the id, 0 for no row
QueryByPhone(tbl, phone) ==
    IF \E i \in DOMAIN tbl : tbl[i].phone = phone
    THEN CHOOSE i \in DOMAIN tbl :
            /\ tbl[i].phone = phone
            /\ \A j \in DOMAIN tbl : tbl[j].phone = phone => i <= j
    ELSE 0

\* db.query(Student).filter(Student.telegram_id == telegram_id).first()
QueryByTelegram(tbl, tg) ==
    IF \E i \in DOMAIN tbl : tbl[i].telegram_id = tg
    THEN CHOOSE i \in DOMAIN tbl :
            /\ tbl[i].telegram_id = tg
            /\ \A j \in DOMAIN tbl : tbl[j].telegram_id = tg => i <= j
    ELSE 0

---------------------------------------------------------------------------
(* CSV sources: a header and data rows read one at a time (csv.DictReader) *)

FullHeader == StudentColumns
Headers == {FullHeader, StudentColumns \ {"phone"}, StudentColumns \ {"first_name"},
            {"first_name", "last_name", "phone"}, {}}

Row(fn, ln, ph, tg, em, belt, nt) ==
    [first_name |-> fn, last_name |-> ln, phone |-> ph, telegram_id |-> tg,
     email |-> em, current_belt |-> belt, notes |-> nt]

\* the data rows a source may hold; None is a field a short row leaves out
RowPool ==
    { Row(NameA, NameB, Phone1, TgA, Mail1, Blue, Note1),
      Row(NameA, NameB, Phone2, Empty, Empty, White, Empty),
      Row(NameA, NameB, Phone3, TgB, Mail1, Blue, Empty),
      Row(NameA, NameB, Empty, Empty, Mail1, Blue, Note1),
      Row(NameSp, NameB, Phone3, Empty, Empty, White, Empty),
      Row(Empty, NameB, Phone1, Empty, Empty, White, Empty),
      Row(NameA, NameA, Phone3, TgA, Empty, Blue, Note1),
      Row(NameB, NameA, Phone1Sp, Empty, Mail1, Blue, Empty),
      Row(NameA, NameB, Phone3, None, None, None, None),
      Row(NameB, NameB, Phone2, TgXyz, Empty, White, Empty),
      Row(NameB, NameA, Phone2, TgA, Empty, Blue, Empty) }

\* a DictReader row: the columns of the header only
RowsOf(h) == {[col \in h |-> r[col]] : r \in RowPool}

\* row.get(col, default)
Get(row, col, default) == IF col \in DOMAIN row THEN row[col] ELSE default

ErrorEntry(n, reason) == [row |-> n, reason |-> reason]

---------------------------------------------------------------------------
(* The SQLAlchemy session of one GoogleDriveService import                 *)
(* (SessionLocal: autocommit=False, autoflush=False): queries read the     *)
(* committed table, attribute changes and added objects stay in the        *)
(* session until db.commit() flushes them.                                 *)

\* flush, UPDATE part: changed objects in primary-key order, each statement
\* checked against the table's constraints
RECURSIVE FlushUpdates(_, _, _)
FlushUpdates(tbl, objs, i) ==
    IF i > Len(tbl) THEN [ok |-> TRUE, tbl |-> tbl]
    ELSE IF objs[i] = tbl[i] THEN FlushUpdates(tbl, objs, i + 1)
    ELSE LET t2 == [tbl EXCEPT ![i] = objs[i]]
         IN  IF ConstraintsOK(t2) THEN FlushUpdates(t2, objs, i + 1)
             ELSE [ok |-> FALSE, tbl |-> tbl]

\* flush, INSERT part: pending objects in the order of db.add, the id
\* assigned by the table
RECURSIVE FlushInserts(_, _)
FlushInserts(tbl, pending) ==
    IF pending = <<>> THEN [ok |-> TRUE, tbl |-> tbl]
    ELSE LET t2 == Append(tbl, [Head(pending) EXCEPT !.id = Len(tbl) + 1])
         IN  IF ConstraintsOK(t2) THEN FlushInserts(t2, Tail(pending))
             ELSE [ok |-> FALSE, tbl |-> tbl]

\* a commit that writes the session without checking any constraint
RECURSIVE Flush_Unchecked(_, _, _)
Flush_Unchecked(tbl, objs, pending) ==
    IF pending = <<>> THEN [ok |-> TRUE, tbl |-> objs]
    ELSE Flush_Unchecked(tbl, Append(objs, [Head(pending) EXCEPT !.id = Len(objs) + 1]),
                         Tail(pending))

\* db.commit(): the table after it, or ok = FALSE for an IntegrityError
Flush(tbl, objs, pending) ==
    LET u == FlushUpdates(tbl, objs, 1)
    IN  IF ~u.ok THEN [ok |-> FALSE, tbl |-> tbl]
        ELSE LET n == FlushInserts(u.tbl, pending)
             IN  IF n.ok THEN n ELSE [ok |-> FALSE, tbl |-> tbl]

---------------------------------------------------------------------------
(* GoogleDriveService._import_students *)

GdIdle ==
    [pc |-> "idle", header |-> {}, rows |-> <<>>, imported_count |-> 0, updated_count |-> 0,
     errors |-> <<>>, objs |-> <<>>, pending |-> <<>>, matched |-> 0, before |-> <<>>,
     result |-> [kind |-> "none"]]

\* the placeholder handles of the new-student branch
PlaceholderHandles == {TgXyz, TgTest, TgExample}

\* a success flag that is set whatever the errors
Success_Always(errors) == TRUE

\* 'success': len(errors) == 0 of the three importers
Success(errors) == Len(errors) = 0

\* the required-field test at the top of the loop body
GdMissingName(row) ==
    \/ ~Truthy(Get(row, "first_name", None))
    \/ ~Truthy(Get(row, "last_name", None))

\* .strip() on a None field raises AttributeError inside the row's try
GdRowRaises(row) ==
    \/ Get(row, "telegram_id", Empty) = None
    \/ Get(row, "phone", Empty) = None

\* a duplicate lookup that asks for the telegram_id first
GdFindExisting_TelegramFirst(tbl, phone, telegram_id) ==
    LET byTelegram == IF telegram_id # Empty THEN QueryByTelegram(tbl, telegram_id) ELSE 0
    IN  IF byTelegram = 0 /\ phone # Empty THEN QueryByPhone(tbl, phone)
        ELSE byTelegram

\* the duplicate lookup: by phone first, then by telegram_id; 0 for no match
GdFindExisting(tbl, phone, telegram_id) ==
    LET byPhone == IF phone # Empty THEN QueryByPhone(tbl, phone) ELSE 0
    IN  IF byPhone = 0 /\ telegram_id # Empty THEN QueryByTelegram(tbl, telegram_id)
        ELSE byPhone

\* an update branch that overwrites telegram_id with whatever the row holds
GdUpdated_AlwaysTelegram(obj, row, phone, telegram_id) ==
    [obj EXCEPT !.first_name = row.first_name,
                !.last_name = row.last_name,
                !.phone = phone,
                !.email = Get(row, "email", Empty),
                !.current_belt = Get(row, "current_belt", White),
                !.notes = Get(row, "notes", Empty),
                !.telegram_id = telegram_id]

\* the update-on-match branch applied to the session's object
GdUpdated(obj, row, phone, telegram_id) ==
    [obj EXCEPT !.first_name = row.first_name,
                !.last_name = row.last_name,
                !.phone = phone,
                !.email = Get(row, "email", Empty),
                !.current_belt = Get(row, "current_belt", White),
                !.notes = Get(row, "notes", Empty),
                !.telegram_id = IF telegram_id # Empty /\ telegram_id # obj.telegram_id
                                THEN telegram_id ELSE obj.telegram_id]

\* the Student(...) built by the new-student branch
GdNewStudent(row, telegram_id) ==
    Student(0, row.first_name, row.last_name, Get(row, "phone", Empty),
            IF telegram_id = Empty \/ telegram_id \in PlaceholderHandles THEN Empty ELSE telegram_id,
            Get(row, "email", Empty), Get(row, "current_belt", White),
            Get(row, "notes", Empty))

\* the objects of the session: those it holds, and for a row another
\* connection has committed since, the row as a query loads it
SessionObjects(objs, tbl) == objs \o SubSeq(tbl, Len(objs) + 1, Len(tbl))

\* one pass of the loop body over data row number n
GdStudentRow(g, tbl, row, n) ==
    LET g1 == [g EXCEPT !.rows = Append(g.rows, row), !.matched = 0,
                        !.objs = SessionObjects(g.objs, tbl)]
    IN  IF GdMissingName(row)
        THEN [g1 EXCEPT !.errors = Append(g.errors, ErrorEntry(n, "missing_name"))]
        ELSE IF GdRowRaises(row)
        THEN [g1 EXCEPT !.errors = Append(g.errors, ErrorEntry(n, "exception"))]
        ELSE LET telegram_id == Strip(Get(row, "telegram_id", Empty))
                 phone == Strip(Get(row, "phone", Empty))
                 ex == GdFindExisting(tbl, phone, telegram_id)
             IN  IF ex # 0
                 THEN [g1 EXCEPT !.objs[ex] = GdUpdated(g1.objs[ex], row, phone, telegram_id),
                                 !.updated_count = g.updated_count + 1,
                                 !.matched = ex]
                 ELSE [g1 EXCEPT !.pending = Append(g.pending, GdNewStudent(row, telegram_id)),
                                 !.imported_count = g.imported_count + 1]

\* import_from_csv_file / import_from_csv_url: parse and call the importer
GdOpen(h) ==
    /\ gd.pc = "idle"
    /\ gd' = [GdIdle EXCEPT !.pc = "loop", !.header = h, !.objs = students, !.before = students]
    /\ UNCHANGED <<students, csv>>
    /\ UNCHANGED <<backupVars, trainingVars, pureVars, paymentVars, examVars>>

\* an import started while no other import runs
GdStart(h) == csv.pc = "idle" /\ GdOpen(h)

\* the for loop reads one more data row
GdRow(row) ==
    /\ gd.pc = "loop"
    /\ Len(gd.rows) < MaxRows
    /\ gd' = GdStudentRow(gd, students, row, Len(gd.rows) + 1)
    /\ UNCHANGED <<students, csv>>
    /\ UNCHANGED <<backupVars, trainingVars, pureVars, paymentVars, examVars>>

\* the reader is exhausted: db.commit(), then the result or rollback and raise;
\* dbfails is a commit the database itself refuses (locked file, full disk)
GdCommit(dbfails) ==
    /\ gd.pc = "loop"
    /\ LET f == Flush(students, SessionObjects(gd.objs, students), gd.pending)
       IN  IF f.ok /\ ~dbfails
           THEN /\ students' = f.tbl
                /\ gd' = [gd EXCEPT !.pc = "returned", !.objs = f.tbl, !.pending = <<>>,
                             !.result = [kind |-> "return",
                                         imported_count |-> gd.imported_count,
                                         errors |-> gd.errors,
                                         success |-> Success(gd.errors)]]
           ELSE /\ students' = students
                /\ gd' = [gd EXCEPT !.pc = "raised", !.objs = students, !.pending = <<>>,
                             !.result = [kind |-> "raise"]]
    /\ UNCHANGED csv
    /\ UNCHANGED <<backupVars, trainingVars, pureVars, paymentVars, examVars>>

---------------------------------------------------------------------------
(* CSVImportService.import_students_from_csv; its session self.db is made  *)
(* once per service and every created student is committed on its own by   *)
(* StudentController.create_student.                                       *)

CsvIdle ==
    [pc |-> "idle", header |-> {}, skip_duplicates |-> TRUE, rows |-> <<>>,
     imported_count |-> 0, skipped_count |-> 0, errors |-> <<>>, sessOK |-> TRUE,
     before |-> <<>>, result |-> [kind |-> "none"]]

RequiredColumns == {"first_name", "last_name", "phone"}

\* validate_csv_format: headers present and every required column among them
ValidateCsvFormat(h) == h # {} /\ RequiredColumns \subseteq h

\* the result dict of a failed validation and of the outer except
CsvFailure == [kind |-> "return", success |-> FALSE, imported_count |-> 0,
               skipped_count |-> 0, errors |-> <<>>]

\* row_num of the n-th data row: enumerate(reader, start=2)
CsvRowNum(n) == n + 1

\* the seven row.get(...).strip() calls: one on a None field raises
CsvRowRaises(row) ==
    \/ Get(row, "first_name", Empty) = None
    \/ Get(row, "last_name", Empty) = None
    \/ Get(row, "phone", Empty) = None
    \/ Get(row, "telegram_id", Empty) = None
    \/ Get(row, "email", Empty) = None
    \/ Get(row, "current_belt", White) = None
    \/ Get(row, "notes", Empty) = None

\* the keyword arguments handed to create_student
CsvNewStudent(row, id) ==
    Student(id,
            Strip(Get(row, "first_name", Empty)),
            Strip(Get(row, "last_name", Empty)),
            Strip(Get(row, "phone", Empty)),
            OrNone(Strip(Get(row, "telegram_id", Empty))),
            OrNone(Strip(Get(row, "email", Empty))),
            Strip(Get(row, "current_belt", White)),
            OrNone(Strip(Get(row, "notes", Empty))))

\* the reason of the required-field error of a row, "" when all three are given
CsvRequiredError(row) ==
    IF Strip(Get(row, "first_name", Empty)) = Empty THEN "empty_first_name"
    ELSE IF Strip(Get(row, "last_name", Empty)) = Empty THEN "empty_last_name"
    ELSE IF Strip(Get(row, "phone", Empty)) = Empty THEN "empty_phone"
    ELSE ""

\* StudentController.create_student: db.add, db.commit; the new table, or
\* ok = FALSE when the commit raises IntegrityError
CreateStudent(tbl, student) ==
    LET t2 == Append(tbl, student)
    IN  IF ConstraintsOK(t2) THEN [ok |-> TRUE, tbl |-> t2] ELSE [ok |-> FALSE, tbl |-> tbl]

\* one pass of the loop body: the service record and the table after it.
\* A commit that raised leaves the session's transaction inactive (no
\* rollback is issued anywhere), and every later query or commit on it raises.
\* a loop body that skips a duplicate without counting it
CsvStudentRow_SilentSkip(c, tbl, row) ==
    LET n == CsvRowNum(Len(c.rows) + 1)
        c1 == [c EXCEPT !.rows = Append(c.rows, row)]
        failed(reason) == [c1 EXCEPT !.errors = Append(c.errors, ErrorEntry(n, reason))]
    IN  IF CsvRowRaises(row) THEN [c |-> failed("exception"), tbl |-> tbl]
        ELSE IF CsvRequiredError(row) # "" THEN [c |-> failed(CsvRequiredError(row)), tbl |-> tbl]
        ELSE IF c.skip_duplicates /\ ~c.sessOK THEN [c |-> failed("exception"), tbl |-> tbl]
        ELSE IF c.skip_duplicates /\ QueryByPhone(tbl, Strip(Get(row, "phone", Empty))) # 0
        THEN [c |-> c1, tbl |-> tbl]
        ELSE IF ~c.sessOK THEN [c |-> failed("exception"), tbl |-> tbl]
        ELSE LET r == CreateStudent(tbl, CsvNewStudent(row, Len(tbl) + 1))
             IN  IF r.ok
                 THEN [c |-> [c1 EXCEPT !.imported_count = c.imported_count + 1], tbl |-> r.tbl]
                 ELSE [c |-> [failed("exception") EXCEPT !.sessOK = FALSE], tbl |-> tbl]

CsvStudentRow(c, tbl, row) ==
    LET n == CsvRowNum(Len(c.rows) + 1)
        c1 == [c EXCEPT !.rows = Append(c.rows, row)]
        failed(reason) == [c1 EXCEPT !.errors = Append(c.errors, ErrorEntry(n, reason))]
    IN  IF CsvRowRaises(row) THEN [c |-> failed("exception"), tbl |-> tbl]
        ELSE IF CsvRequiredError(row) # "" THEN [c |-> failed(CsvRequiredError(row)), tbl |-> tbl]
        ELSE IF c.skip_duplicates /\ ~c.sessOK THEN [c |-> failed("exception"), tbl |-> tbl]
        ELSE IF c.skip_duplicates /\ QueryByPhone(tbl, Strip(Get(row, "phone", Empty))) # 0
        THEN [c |-> [c1 EXCEPT !.skipped_count = c.skipped_count + 1], tbl |-> tbl]
        ELSE IF ~c.sessOK THEN [c |-> failed("exception"), tbl |-> tbl]
        ELSE LET r == CreateStudent(tbl, CsvNewStudent(row, Len(tbl) + 1))
             IN  IF r.ok
                 THEN [c |-> [c1 EXCEPT !.imported_count = c.imported_count + 1], tbl |-> r.tbl]
                 ELSE [c |-> [failed("exception") EXCEPT !.sessOK = FALSE], tbl |-> tbl]

\* the call up to the loop: validate, return the failure or open the reader
CsvOpen(h, skip) ==
    /\ csv.pc = "idle"
    /\ csv' = IF ValidateCsvFormat(h)
              THEN [CsvIdle EXCEPT !.pc = "loop", !.header = h, !.skip_duplicates = skip,
                                   !.before = students]
              ELSE [CsvIdle EXCEPT !.pc = "returned", !.header = h, !.skip_duplicates = skip,
                                   !.before = students, !.result = CsvFailure]
    /\ UNCHANGED <<students, gd>>
    /\ UNCHANGED <<backupVars, trainingVars, pureVars, paymentVars, examVars>>

\* an import started while no other import runs
CsvStart(h, skip) == gd.pc = "idle" /\ CsvOpen(h, skip)

\* the for loop reads one more data row
CsvRow(row) ==
    /\ csv.pc = "loop"
    /\ Len(csv.rows) < MaxRows
    /\ LET r == CsvStudentRow(csv, students, row)
       IN  csv' = r.c /\ students' = r.tbl
    /\ UNCHANGED gd
    /\ UNCHANGED <<backupVars, trainingVars, pureVars, paymentVars, examVars>>

\* the reader is exhausted: the success result
CsvEnd ==
    /\ csv.pc = "loop"
    /\ csv' = [csv EXCEPT !.pc = "returned",
                  !.result = [kind |-> "return", success |-> TRUE,
                              imported_count |-> csv.imported_count,
                              skipped_count |-> csv.skipped_count,
                              errors |-> csv.errors]]
    /\ UNCHANGED <<students, gd>>
    /\ UNCHANGED <<backupVars, trainingVars, pureVars, paymentVars, examVars>>

\* reading the next row raises (a byte the detected encoding cannot decode,
\* past the prefix detect_encoding looked at): the outer except returns
CsvReadError ==
    /\ csv.pc = "loop"
    /\ csv' = [csv EXCEPT !.pc = "returned", !.result = CsvFailure]
    /\ UNCHANGED <<students, gd>>
    /\ UNCHANGED <<backupVars, trainingVars, pureVars, paymentVars, examVars>>

---------------------------------------------------------------------------
(* BackupService: the live database file, the backup directory, the safety *)
(* copies restore_backup leaves beside the database. A file is its data    *)
(* and its modification time; shutil.copy2 copies both.                    *)

File(data, mtime) == [data |-> data, mtime |-> mtime]

\* what a copy or a write that failed half way leaves behind
Corrupt == <<"?">>

\* paths inside backup_dir, keyed by the timestamp of the call
DbPath(ts) == <<"bjj_crm_.db", ts>>
FilesPath(ts) == <<"bjj_crm_files_.tar.gz", ts>>
MetadataPath(ts) == <<"backup_metadata_.json", ts>>
NoPath == <<"None", 0>>

\* datetime.now().strftime("%Y%m%d_%H%M%S"): the clock to the second
Timestamp(now) == now

\* os.path.getsize
SizeOf(data) == Len(data)

\* the tar.gz _create_files_backup writes of the application files
TarOf(files) == <<"gz">> \o files

\* a sidecar whose json.dump stopped half way: json.load raises on it
BadJson == [truncated |-> TRUE]

\* what _restore_files_backup extracts from an archive
UntarOf(data) == Tail(data)

\* directory with file written (created or replaced) at path
Put(dir, path, file) ==
    [q \in DOMAIN dir \cup {path} |-> IF q = path THEN file ELSE dir[q]]

\* calls made and steps failed so far, the records create_backup has
\* returned, each with the contents the live database had at that call, and
\* the outcome of the last list_backups, delete_backup or cleanup_old_backups
BkIdle == [calls |-> 0, faults |-> 0, issued |-> {}, last |-> [op |-> "none"]]

\* a backup_info that names an archive whether or not one was asked for
BackupInfo_AlwaysArchive(ts, db_file, files_file, include_files, file_sizes) ==
    [timestamp |-> ts, db_file |-> db_file, files_file |-> FilesPath(ts),
     include_files |-> include_files, file_sizes |-> file_sizes]

\* the backup_info dict of create_backup
BackupInfo(ts, db_file, files_file, include_files, file_sizes) ==
    [timestamp |-> ts, db_file |-> db_file, files_file |-> files_file,
     include_files |-> include_files, file_sizes |-> file_sizes]

CreateFailPoints == {"none", "db_copy", "archive", "metadata"}

\* a create_backup that removes the files of the call when a step raises
CreateBackupEffect_CleansUp(dir, live, files, now, include_files, fail, partial) ==
    LET ts == Timestamp(now)
        info == BackupInfo(ts, DbPath(ts), IF include_files THEN FilesPath(ts) ELSE NoPath,
                           include_files, [k \in {"database"} |-> SizeOf(live.data)])
        d2 == Put(IF include_files THEN Put(dir, FilesPath(ts), File(TarOf(files), now)) ELSE dir,
                  DbPath(ts), live)
    IN  IF fail = "none"
        THEN [ok |-> TRUE, info |-> info, dir |-> Put(d2, MetadataPath(ts), File(info, now))]
        ELSE [ok |-> FALSE, info |-> info,
              dir |-> [q \in DOMAIN dir \ {DbPath(ts), FilesPath(ts), MetadataPath(ts)} |-> dir[q]]]

\* create_backup(include_files) at clock time now; fail names the step that
\* raises, partial whether that step left a half-written file. The result
\* is the directory after the call and the returned dict (ok) or the raise.
CreateBackupEffect(dir, live, files, now, include_files, fail, partial) ==
    LET ts == Timestamp(now)
        d1 == Put(dir, DbPath(ts), live)
        sizes1 == [k \in {"database"} |-> SizeOf(live.data)]
        tar == File(TarOf(files), now)
        d2 == IF include_files THEN Put(d1, FilesPath(ts), tar) ELSE d1
        sizes2 == IF include_files
                  THEN [k \in {"database", "files"} |->
                           IF k = "database" THEN SizeOf(live.data) ELSE SizeOf(tar.data)]
                  ELSE sizes1
        info == BackupInfo(ts, DbPath(ts), IF include_files THEN FilesPath(ts) ELSE NoPath,
                           include_files, sizes2)
    IN  CASE fail = "db_copy" ->
               [ok |-> FALSE, info |-> info,
                dir |-> IF partial THEN Put(dir, DbPath(ts), File(Corrupt, now)) ELSE dir]
          [] fail = "archive" ->
               [ok |-> FALSE, info |-> info,
                dir |-> IF partial THEN Put(d1, FilesPath(ts), File(Corrupt, now)) ELSE d1]
          [] fail = "metadata" ->
               [ok |-> FALSE, info |-> info,
                dir |-> IF partial THEN Put(d2, MetadataPath(ts), File(BadJson, now)) ELSE d2]
          [] OTHER ->
               [ok |-> TRUE, info |-> info,
                dir |-> Put(d2, MetadataPath(ts), File(info, now))]

\* the sidecars of the directory that json.load parses
ParsedSidecars(dir) ==
    {q \in DOMAIN dir : q[1] = "backup_metadata_.json" /\ "timestamp" \in DOMAIN dir[q].data}

\* backups.sort(key=timestamp, reverse=True) over the records of paths
RECURSIVE SortedNewestFirst(_, _)
SortedNewestFirst(dir, paths) ==
    IF paths = {} THEN <<>>
    ELSE LET q == CHOOSE x \in paths : \A y \in paths : dir[y].data.timestamp <= dir[x].data.timestamp
         IN  <<[info |-> dir[q].data, metadata_file |-> q]>> \o SortedNewestFirst(dir, paths \ {q})

\* list_backups(): the parsed records, each with its metadata_file
ListBackups(dir) == SortedNewestFirst(dir, ParsedSidecars(dir))

RestoreFailPoints == {"none", "safety_copy", "overwrite", "extract"}

\* a restore that copies the snapshot over the live file first and takes the
\* safety copy afterwards
RestoreDatabase_OverwriteFirst(live, saf, snapshot, now, fail, partial) ==
    IF fail = "safety_copy"
    THEN [ok |-> FALSE, live |-> snapshot, steps |-> {"safety_copy", "overwrite"},
          safety |-> saf]
    ELSE [ok |-> fail # "overwrite", live |-> snapshot, steps |-> {"safety_copy", "overwrite"},
          safety |-> Put(saf, Timestamp(now), snapshot)]

\* the database part of restore_backup: the safety copy of the live file
\* under the clock's second, then the snapshot copied over the live file.
\* fail names the step that raises; partial says the failed copy over the
\* live file left it half written.
RestoreDatabase(live, saf, snapshot, now, fail, partial) ==
    IF fail = "safety_copy"
    THEN [ok |-> FALSE, live |-> live, steps |-> {"safety_copy"}, safety |-> saf]
    ELSE LET saf2 == Put(saf, Timestamp(now), live)
         IN  IF fail = "overwrite"
             THEN [ok |-> FALSE, steps |-> {"safety_copy", "overwrite"}, safety |-> saf2,
                   live |-> IF partial THEN File(Corrupt, now) ELSE live]
             ELSE [ok |-> TRUE, steps |-> {"safety_copy", "overwrite"}, safety |-> saf2,
                   live |-> snapshot]

\* restore_backup(backup_info, restore_files)
RestoreBackupEffect(dir, live, saf, files, info, now, restore_files, fail, partial) ==
    LET hasDb == info.db_file # NoPath /\ info.db_file \in DOMAIN dir
        hasFiles == restore_files /\ info.files_file # NoPath /\ info.files_file \in DOMAIN dir
        db == IF hasDb
              THEN RestoreDatabase(live, saf, dir[info.db_file], now, fail, partial)
              ELSE [ok |-> TRUE, live |-> live, steps |-> {}, safety |-> saf]
    IN  IF ~db.ok THEN [ok |-> FALSE, live |-> db.live, safety |-> db.safety, files |-> files,
                        steps |-> db.steps]
        ELSE IF ~hasFiles THEN [ok |-> TRUE, live |-> db.live, safety |-> db.safety,
                                files |-> files, steps |-> db.steps]
        ELSE IF fail = "extract" \/ dir[info.files_file].data = Corrupt
        THEN [ok |-> FALSE, live |-> db.live, safety |-> db.safety, files |-> files,
              steps |-> db.steps \cup {"extract"}]
        ELSE [ok |-> TRUE, live |-> db.live, safety |-> db.safety,
              files |-> UntarOf(dir[info.files_file].data), steps |-> db.steps \cup {"extract"}]

\* the records a caller can hold: returned by create_backup or by list_backups
KnownRecords ==
    {r.info : r \in bk.issued}
        \cup {backupDir[q].data : q \in ParsedSidecars(backupDir)}

\* a second passes
Tick ==
    /\ clock < MaxClock
    /\ clock' = clock + 1
    /\ UNCHANGED <<liveDb, appFiles, backupDir, safety, bk>>
    /\ UNCHANGED <<importVars, trainingVars, pureVars, paymentVars, examVars>>

EditBytes == {"1"}

\* the application commits to the live database
EditDb(b) ==
    /\ Len(liveDb.data) <= MaxEdits
    /\ liveDb.data # Corrupt
    /\ liveDb' = File(Append(liveDb.data, b), clock)
    /\ UNCHANGED <<clock, appFiles, backupDir, safety, bk>>
    /\ UNCHANGED <<importVars, trainingVars, pureVars, paymentVars, examVars>>

CreateBackup(include_files, fail, partial) ==
    /\ bk.calls < MaxCalls
    /\ fail # "none" => bk.faults < MaxFaults
    /\ fail = "archive" => include_files
    /\ fail = "none" => ~partial
    /\ LET e == CreateBackupEffect(backupDir, liveDb, appFiles, clock, include_files, fail, partial)
       IN  /\ backupDir' = e.dir
           /\ bk' = [calls |-> bk.calls + 1,
                     faults |-> IF e.ok THEN bk.faults ELSE bk.faults + 1,
                     issued |-> IF e.ok
                                THEN bk.issued \cup {[info |-> e.info, content |-> liveDb.data]}
                                ELSE bk.issued,
                     last |-> bk.last]
    /\ UNCHANGED <<clock, liveDb, appFiles, safety>>
    /\ UNCHANGED <<importVars, trainingVars, pureVars, paymentVars, examVars>>

ListBackupsCall ==
    /\ bk.calls < MaxCalls
    /\ bk' = [bk EXCEPT !.calls = bk.calls + 1]
    /\ UNCHANGED <<clock, liveDb, appFiles, backupDir, safety>>
    /\ UNCHANGED <<importVars, trainingVars, pureVars, paymentVars, examVars>>

\* restore_backup(info, restore_files) by a caller holding the record info
RestoreBackup(info, restore_files, fail, partial) ==
    /\ bk.calls < MaxCalls
    /\ fail # "none" => bk.faults < MaxFaults
    /\ partial => fail = "overwrite"
    /\ LET e == RestoreBackupEffect(backupDir, liveDb, safety, appFiles, info, clock,
                                    restore_files, fail, partial)
       IN  /\ fail # "none" => fail \in e.steps /\ ~e.ok
           /\ liveDb' = e.live
           /\ safety' = e.safety
           /\ appFiles' = e.files
           /\ bk' = [bk EXCEPT !.calls = bk.calls + 1,
                               !.faults = IF fail = "none" THEN bk.faults ELSE bk.faults + 1]
    /\ UNCHANGED <<clock, backupDir>>
    /\ UNCHANGED <<importVars, trainingVars, pureVars, paymentVars, examVars>>

---------------------------------------------------------------------------
(* BackupService: delete_backup, cleanup_old_backups and what list_backups *)
(* returns, on a directory whose entries age by days.                      *)

\* an OldEntries that also takes the entries exactly at the cutoff
OldEntries_AtCutoff(dir, now, keep_days) ==
    {q \in DOMAIN dir : dir[q].mtime <= now - keep_days * 86400}

\* keep_days * 24 * 3600: the seconds of a day
DaySeconds == 86400

\* the keep_days a caller passes (7 is the default)
KeepDaysChoices == {0, 1, 7}

\* a sidecar cut inside a multi-byte character of its description: reading it
\* as utf-8 raises UnicodeDecodeError, which is no JSONDecodeError
BadBytes == [undecodable |-> TRUE]

\* the sidecars whose read raises an error list_backups does not skip
UndecodableSidecars(dir) ==
    {q \in DOMAIN dir : q[1] = "backup_metadata_.json" /\ "undecodable" \in DOMAIN dir[q].data}

\* directory without the paths in gone
RemoveAll(dir, gone) == [q \in DOMAIN dir \ gone |-> dir[q]]

\* list_backups() while the sidecars in gone disappear between the listing
\* of the directory and their open(): the returned list, or the raise
ListBackupsOutcome(dir, gone) ==
    IF UndecodableSidecars(dir) \ gone # {}
    THEN [ok |-> FALSE]
    ELSE [ok |-> TRUE, ret |-> ListBackups(RemoveAll(dir, gone))]

\* the records a caller can pass to delete_backup: those create_backup
\* returned (they carry no metadata_file) and those list_backups returns
HeldRecords ==
    {[info |-> r.info, metadata_file |-> NoPath] : r \in bk.issued}
        \cup {ListBackups(backupDir)[i] : i \in DOMAIN ListBackups(backupDir)}

\* files_to_delete of delete_backup, in its order
FilesToDelete(rec) == <<rec.info.db_file, rec.info.files_file, rec.metadata_file>>

DeleteFailPoints == {0, 1, 2, 3}

\* delete_backup(rec): each named file that exists is removed, in order;
\* failAt is the position of the os.remove that raises (0: none does)
RECURSIVE DeleteFrom(_, _, _, _)
DeleteFrom(dir, files, i, failAt) ==
    IF i > Len(files) THEN [ok |-> TRUE, dir |-> dir]
    ELSE IF files[i] # NoPath /\ files[i] \in DOMAIN dir
    THEN IF failAt = i THEN [ok |-> FALSE, dir |-> dir]
         ELSE DeleteFrom(RemoveAll(dir, {files[i]}), files, i + 1, failAt)
    ELSE DeleteFrom(dir, files, i + 1, failAt)

DeleteBackupEffect(dir, rec, failAt) == DeleteFrom(dir, FilesToDelete(rec), 1, failAt)

\* cutoff_time of cleanup_old_backups
\* a sweep that takes an entry only when every entry of its backup is old
OldEntries_WholeRecords(dir, now, keep_days) ==
    {q \in DOMAIN dir :
        \A r \in DOMAIN dir : r[2] = q[2] => dir[r].mtime < now - keep_days * 86400}

CutoffTime(now, keep_days) == now - keep_days * DaySeconds

\* the entries cleanup_old_backups finds older than the cutoff
OldEntries(dir, now, keep_days) ==
    {q \in DOMAIN dir : dir[q].mtime < CutoffTime(now, keep_days)}

\* cleanup_old_backups(keep_days): every old entry removed and counted
CleanupEffect(dir, now, keep_days) ==
    [dir |-> RemoveAll(dir, OldEntries(dir, now, keep_days)),
     count |-> Cardinality(OldEntries(dir, now, keep_days))]

\* a day passes
DayPasses ==
    /\ clock < MaxDays * DaySeconds
    /\ clock' = clock + DaySeconds
    /\ UNCHANGED <<liveDb, appFiles, backupDir, safety, bk>>
    /\ UNCHANGED <<importVars, trainingVars, pureVars, paymentVars, examVars>>

\* create_backup whose json.dump stops inside a multi-byte character
CreateBackupCut(include_files) ==
    /\ bk.calls < MaxCalls
    /\ bk.faults < MaxFaults
    /\ LET e == CreateBackupEffect(backupDir, liveDb, appFiles, clock, include_files,
                                   "metadata", TRUE)
       IN  backupDir' = Put(e.dir, MetadataPath(Timestamp(clock)), File(BadBytes, clock))
    /\ bk' = [bk EXCEPT !.calls = bk.calls + 1, !.faults = bk.faults + 1]
    /\ UNCHANGED <<clock, liveDb, appFiles, safety>>
    /\ UNCHANGED <<importVars, trainingVars, pureVars, paymentVars, examVars>>

\* list_backups(), the sidecars in gone being removed by someone else while
\* it runs
ListBackupsRacing(gone) ==
    /\ bk.calls < MaxCalls
    /\ gone # {} => bk.faults < MaxFaults
    /\ backupDir' = RemoveAll(backupDir, gone)
    /\ bk' = [bk EXCEPT !.calls = bk.calls + 1,
                        !.faults = IF gone = {} THEN bk.faults ELSE bk.faults + 1,
                        !.last = [op |-> "list_backups", n |-> bk.calls + 1, gone |-> gone]
                                    @@ ListBackupsOutcome(backupDir, gone)]
    /\ UNCHANGED <<clock, liveDb, appFiles, safety>>
    /\ UNCHANGED <<importVars, trainingVars, pureVars, paymentVars, examVars>>

\* delete_backup(rec) by a caller holding rec
DeleteBackup(rec, failAt) ==
    /\ bk.calls < MaxCalls
    /\ failAt # 0 => bk.faults < MaxFaults
    /\ LET e == DeleteBackupEffect(backupDir, rec, failAt)
       IN  /\ failAt # 0 => ~e.ok
           /\ backupDir' = e.dir
           /\ bk' = [bk EXCEPT !.calls = bk.calls + 1,
                               !.faults = IF e.ok THEN bk.faults ELSE bk.faults + 1,
                               !.last = [op |-> "delete_backup", n |-> bk.calls + 1,
                                         rec |-> rec, ok |-> e.ok]]
    /\ UNCHANGED <<clock, liveDb, appFiles, safety>>
    /\ UNCHANGED <<importVars, trainingVars, pureVars, paymentVars, examVars>>

\* cleanup_old_backups(keep_days); fails says an os.remove raised, after the
\* entries in done were removed
CleanupOldBackups(keep_days, fails, done) ==
    /\ bk.calls < MaxCalls
    /\ fails => bk.faults < MaxFaults
    /\ IF fails
       THEN /\ done \subseteq OldEntries(backupDir, clock, keep_days)
            /\ done # OldEntries(backupDir, clock, keep_days)
            /\ backupDir' = RemoveAll(backupDir, done)
            /\ bk' = [bk EXCEPT !.calls = bk.calls + 1, !.faults = bk.faults + 1,
                                !.last = [op |-> "cleanup_old_backups", n |-> bk.calls + 1,
                                          ok |-> FALSE,
                                          keep_days |-> keep_days]]
       ELSE /\ done = {}
            /\ backupDir' = CleanupEffect(backupDir, clock, keep_days).dir
            /\ bk' = [bk EXCEPT !.calls = bk.calls + 1,
                                !.last = [op |-> "cleanup_old_backups", n |-> bk.calls + 1,
                                          ok |-> TRUE,
                                          keep_days |-> keep_days,
                                          ret |-> CleanupEffect(backupDir, clock, keep_days).count]]
    /\ UNCHANGED <<clock, liveDb, appFiles, safety>>
    /\ UNCHANGED <<importVars, trainingVars, pureVars, paymentVars, examVars>>

---------------------------------------------------------------------------
(* Format validation: CSVImportService.validate_csv_format and             *)
(* GoogleDriveService.validate_csv_format / validate_csv_file.  A header   *)
(* is the set of csv.DictReader fieldnames; a list of fields keeps the     *)
(* order of the code's list.                                               *)

NoCall == [op |-> "none"]

\* the data_type argument; "belts" stands for any unsupported value
DataTypes == {"students", "trainings", "payments", "belts"}

\* the column names a validated header is drawn from
ValidatorColumns ==
    {"first_name", "last_name", "phone", "date", "trainer_name", "student_name", "amount"}

\* [col for col in required if col not in headers]
MissingFrom(required, headers) == SelectSeq(required, LAMBDA col : col \notin headers)

\* required_columns of CSVImportService.validate_csv_format
RequiredColumnList == <<"first_name", "last_name", "phone">>

\* CSVImportService.validate_csv_format; ~readable is any exception raised
\* while the file is opened, sniffed or read
CsvValidateCsvFormat(headers, readable) ==
    IF ~readable THEN [valid |-> FALSE, error |-> [kind |-> "exception"]]
    ELSE IF headers = {} THEN [valid |-> FALSE, error |-> [kind |-> "no_headers"]]
    ELSE IF MissingFrom(RequiredColumnList, headers) # <<>>
    THEN [valid |-> FALSE,
          error |-> [kind |-> "missing", fields |-> MissingFrom(RequiredColumnList, headers)]]
    ELSE [valid |-> TRUE, headers |-> headers, required_columns |-> RequiredColumnList]

\* required_fields of both GoogleDriveService validators
GdRequiredFields ==
    [students |-> <<"first_name", "last_name">>,
     trainings |-> <<"date", "trainer_name">>,
     payments |-> <<"student_name", "amount">>]

\* the body shared by GoogleDriveService.validate_csv_format and
\* validate_csv_file; ~readable is a failed download or read
GdValidate(headers, data_type, readable) ==
    IF ~readable THEN [valid |-> FALSE, error |-> [kind |-> "exception"]]
    ELSE IF data_type \notin DOMAIN GdRequiredFields
    THEN [valid |-> FALSE, error |-> [kind |-> "unsupported", data_type |-> data_type]]
    ELSE IF MissingFrom(GdRequiredFields[data_type], headers) # <<>>
    THEN [valid |-> FALSE,
          error |-> [kind |-> "missing",
                     fields |-> MissingFrom(GdRequiredFields[data_type], headers)],
          headers |-> headers]
    ELSE [valid |-> TRUE, headers |-> headers]

\* the caller has taken the result of the last call
ResultTaken ==
    /\ call # NoCall
    /\ call' = NoCall
    /\ UNCHANGED <<importVars, backupVars, trainingVars, paymentVars, examVars>>

\* a call of CSVImportService.validate_csv_format
CsvValidateCall(headers, readable) ==
    /\ call = NoCall
    /\ call' = [op |-> "CSVImportService.validate_csv_format", data_type |-> "students",
                headers |-> headers, readable |-> readable,
                ret |-> CsvValidateCsvFormat(headers, readable)]
    /\ UNCHANGED <<importVars, backupVars, trainingVars, paymentVars, examVars>>

\* a call of GoogleDriveService.validate_csv_format
GdValidateCsvFormat(headers, data_type, readable) ==
    /\ call = NoCall
    /\ call' = [op |-> "GoogleDriveService.validate_csv_format", data_type |-> data_type,
                headers |-> headers, readable |-> readable,
                ret |-> GdValidate(headers, data_type, readable)]
    /\ UNCHANGED <<importVars, backupVars, trainingVars, paymentVars, examVars>>

\* a call of GoogleDriveService.validate_csv_file
GdValidateCsvFile(headers, data_type, readable) ==
    /\ call = NoCall
    /\ call' = [op |-> "GoogleDriveService.validate_csv_file", data_type |-> data_type,
                headers |-> headers, readable |-> readable,
                ret |-> GdValidate(headers, data_type, readable)]
    /\ UNCHANGED <<importVars, backupVars, trainingVars, paymentVars, examVars>>

---------------------------------------------------------------------------
(* CSVImportService.detect_encoding.  A file prefix is a sequence of byte  *)
(* classes: "a" an ASCII byte, "u" a well-formed UTF-8 multi-byte          *)
(* sequence, "h" a byte above 0x7F that is no UTF-8 on its own and that    *)
(* cp1251 defines (0xE0), "x" the byte 0x98, which cp1251 leaves           *)
(* undefined.  A confidence is in hundredths.                              *)

ByteClasses == {"a", "u", "h", "x"}

Prefixes == UNION {[1..n -> ByteClasses] : n \in 0..MaxPrefix}

\* result['encoding'] of chardet when it recognises nothing
NoEncoding == "None"

\* what chardet.detect may answer: nothing with confidence 0.0, or an
\* encoding with some confidence
ChardetResults ==
    {[encoding |-> NoEncoding, confidence |-> 0]} \cup
    [encoding : {"utf-8", "windows-1251", "ascii", "KOI8-R"}, confidence : {30, 69, 70, 71, 99}]

\* the 0.7 of the confidence test
ConfidenceThreshold == 70

\* the fallback list of the low-confidence branch
FallbackEncodings == <<"utf-8", "windows-1251", "cp1251", "iso-8859-1">>

\* open(file_path, 'r', encoding=...).read(1000) does not raise UnicodeDecodeError
Decodes(encoding, data) ==
    IF encoding = "utf-8" THEN \A i \in DOMAIN data : data[i] \in {"a", "u"}
    ELSE IF encoding \in {"windows-1251", "cp1251"} THEN \A i \in DOMAIN data : data[i] # "x"
    ELSE TRUE

\* the for loop over the fallback list from position i: the first encoding
\* that decodes, NoEncoding when the loop ends without a return
RECURSIVE FirstDecoding(_, _)
FirstDecoding(data, i) ==
    IF i > Len(FallbackEncodings) THEN NoEncoding
    ELSE IF Decodes(FallbackEncodings[i], data) THEN FallbackEncodings[i]
    ELSE FirstDecoding(data, i + 1)

\* encoding or 'utf-8'
OrUtf8(encoding) == IF encoding = NoEncoding THEN "utf-8" ELSE encoding

\* a confidence test that also sends the threshold itself to the fallback list
LowConfidence_Inclusive(confidence) == confidence <= ConfidenceThreshold

\* confidence < 0.7
LowConfidence(confidence) == confidence < ConfidenceThreshold

DetectIoErrors == {"none", "open", "probe"}

\* detect_encoding; io_error is an OSError of the first open ("open") or of
\* an open inside the fallback loop ("probe")
DetectEncoding(data, detected, io_error) ==
    IF io_error = "open" THEN "utf-8"
    ELSE IF LowConfidence(detected.confidence)
    THEN IF io_error = "probe" THEN "utf-8"
         ELSE IF FirstDecoding(data, 1) # NoEncoding THEN FirstDecoding(data, 1)
         ELSE OrUtf8(detected.encoding)
    ELSE OrUtf8(detected.encoding)

\* a call of detect_encoding
DetectEncodingCall(data, detected, io_error) ==
    /\ call = NoCall
    /\ call' = [op |-> "CSVImportService.detect_encoding", data |-> data, detected |-> detected,
                io_error |-> io_error, ret |-> DetectEncoding(data, detected, io_error)]
    /\ UNCHANGED <<importVars, backupVars, trainingVars, paymentVars, examVars>>

---------------------------------------------------------------------------
(* GoogleDriveService._import_trainings.  A date string is a sequence of   *)
(* lexical pieces: a calendar date, a separator character, a time of day,  *)
(* a zone designator.                                                      *)

Day1 == "2025-10-25"
Day2 == "2025-10-26"
DayDotted == "25.10.2025"
Time1 == "10:00:00"
Midnight == "00:00:00"
UtcOffset == "+00:00"

IsoDays == {Day1, Day2}
IsoTimes == {Time1}
\* any single character may stand between date and time for fromisoformat
Separators == {"T", " "}

\* the date fields a CSV may hold
DateStrings ==
    { <<Day1, "T", Time1>>, <<Day1, "T", Time1, "Z">>, <<Day1, " ", Time1>>, <<Day2>>,
      <<DayDotted>>, <<Day1, "T">>, Empty }

\* str.replace('Z', '+00:00')
ReplaceZ(s) == [i \in DOMAIN s |-> IF s[i] = "Z" THEN UtcOffset ELSE s[i]]

NoDateTime == [ok |-> FALSE, day |-> "", time |-> "", utc |-> FALSE]

\* datetime.fromisoformat on the shapes of DateStrings; ok = FALSE is ValueError
FromIsoformat(s) ==
    IF Len(s) = 1 /\ s[1] \in IsoDays
    THEN [ok |-> TRUE, day |-> s[1], time |-> Midnight, utc |-> FALSE]
    ELSE IF Len(s) = 3 /\ s[1] \in IsoDays /\ s[2] \in Separators /\ s[3] \in IsoTimes
    THEN [ok |-> TRUE, day |-> s[1], time |-> s[3], utc |-> FALSE]
    ELSE IF Len(s) = 4 /\ s[1] \in IsoDays /\ s[2] \in Separators /\ s[3] \in IsoTimes
                       /\ s[4] = UtcOffset
    THEN [ok |-> TRUE, day |-> s[1], time |-> s[3], utc |-> TRUE]
    ELSE NoDateTime

\* the DateTime column: the value is stored and compared without its tzinfo
DbDateTime(dt) == [day |-> dt.day, time |-> dt.time]

TrainerI == <<"I", " ", "P">>
TrainerJ == <<"J", " ", "K">>
TrainerUnknown == <<"Z", " ", "Z">>
TrainerOneWord == <<"I">>

\* the trainers table, rows in id order
Trainers ==
    << [id |-> 1, first_name |-> <<"I">>, last_name |-> <<"P">>],
       [id |-> 2, first_name |-> <<"J">>, last_name |-> <<"K">>] >>

Training(id, date, trainer_id, notes) ==
    [id |-> id, date |-> date, trainer_id |-> trainer_id, notes |-> notes]

\* the trainings table before an import starts
TrainingStores ==
    { <<>>, << Training(1, [day |-> Day1, time |-> Time1], 1, Note0) >> }

TrainingRow(date, trainer_name, notes) ==
    [date |-> date, trainer_name |-> trainer_name, notes |-> notes]

\* the data rows a trainings CSV may hold
TrainingRowPool ==
    {TrainingRow(d, TrainerI, Note1) : d \in DateStrings} \cup
    { TrainingRow(<<Day1, "T", Time1>>, TrainerJ, Empty),
      TrainingRow(<<Day1, "T", Time1>>, TrainerUnknown, Empty),
      TrainingRow(<<Day2>>, TrainerOneWord, Empty),
      TrainingRow(<<DayDotted>>, TrainerUnknown, Empty),
      TrainingRow(<<Day2>>, Empty, Empty) }

\* str.split(' ', 1)
RECURSIVE SplitOnce(_, _)
SplitOnce(s, i) ==
    IF i > Len(s) THEN <<s>>
    ELSE IF s[i] = " " THEN <<SubSeq(s, 1, i - 1), SubSeq(s, i + 1, Len(s))>>
    ELSE SplitOnce(s, i + 1)

\* db.query(Trainer).filter(first_name == ..., last_name == ...).first(): the id, 0 for none
QueryTrainer(first_name, last_name) ==
    IF \E i \in DOMAIN Trainers :
          Trainers[i].first_name = first_name /\ Trainers[i].last_name = last_name
    THEN CHOOSE i \in DOMAIN Trainers :
            /\ Trainers[i].first_name = first_name /\ Trainers[i].last_name = last_name
            /\ \A j \in DOMAIN Trainers :
                  (Trainers[j].first_name = first_name /\ Trainers[j].last_name = last_name)
                     => i <= j
    ELSE 0

\* db.query(Training).filter(date == training_date, trainer_id == ...).first()
\* on the committed table (autoflush=False leaves added objects out of it)
QueryTraining(tbl, training_date, trainer_id) ==
    IF \E i \in DOMAIN tbl : tbl[i].date = DbDateTime(training_date) /\ tbl[i].trainer_id = trainer_id
    THEN CHOOSE i \in DOMAIN tbl :
            /\ tbl[i].date = DbDateTime(training_date) /\ tbl[i].trainer_id = trainer_id
            /\ \A j \in DOMAIN tbl :
                  (tbl[j].date = DbDateTime(training_date) /\ tbl[j].trainer_id = trainer_id)
                     => i <= j
    ELSE 0

\* _import_trainings before it is called; trainer_queries and
\* training_queries count the db.query calls of the import
TiIdle ==
    [pc |-> "idle", row_num |-> 0, row |-> TrainingRow(Empty, Empty, Empty),
     imported_count |-> 0, errors |-> <<>>, pending |-> <<>>,
     trainer_queries |-> 0, training_queries |-> 0, before |-> <<>>,
     result |-> [kind |-> "none"]]

\* a date check that lets every non-empty date through
TiDateError_MissingOnly(row) ==
    IF ~Truthy(row.date) THEN "missing_date" ELSE "none"

\* the two date checks at the top of the loop body
TiDateError(row) ==
    IF ~Truthy(row.date) THEN "missing_date"
    ELSE IF ~FromIsoformat(ReplaceZ(row.date)).ok THEN "bad_date"
    ELSE "none"

\* one pass of the loop body over data row number n
TiTrainingRow(t, tbl, row, n) ==
    LET t1 == [t EXCEPT !.row_num = n, !.row = row]
    IN  IF TiDateError(row) # "none"
        THEN [t1 EXCEPT !.errors = Append(t.errors, ErrorEntry(n, TiDateError(row)))]
        ELSE LET training_date == FromIsoformat(ReplaceZ(row.date))
                 name_parts == SplitOnce(row.trainer_name, 1)
                 looked == Truthy(row.trainer_name) /\ Len(name_parts) = 2
                 trainer == IF looked THEN QueryTrainer(name_parts[1], name_parts[2]) ELSE 0
                 t2 == [t1 EXCEPT !.trainer_queries = t.trainer_queries + (IF looked THEN 1 ELSE 0)]
             IN  IF trainer = 0
                 THEN [t2 EXCEPT !.errors = Append(t.errors, ErrorEntry(n, "no_trainer"))]
                 ELSE LET t3 == [t2 EXCEPT !.training_queries = t.training_queries + 1]
                      IN  IF QueryTraining(tbl, training_date, trainer) # 0
                          THEN [t3 EXCEPT !.errors = Append(t.errors, ErrorEntry(n, "duplicate"))]
                          ELSE [t3 EXCEPT
                                  !.pending = Append(t.pending,
                                                 Training(0, DbDateTime(training_date), trainer,
                                                          row.notes)),
                                  !.imported_count = t.imported_count + 1]

\* import_from_csv_file / import_from_csv_url with data_type 'trainings'
TiStart ==
    /\ ti.pc = "idle"
    /\ ti' = [TiIdle EXCEPT !.pc = "loop", !.before = trainings]
    /\ UNCHANGED trainings
    /\ UNCHANGED <<importVars, backupVars, pureVars, paymentVars, examVars>>

\* the for loop reads one more data row
TiRow(row) ==
    /\ ti.pc = "loop"
    /\ ti.row_num < MaxRows
    /\ ti' = TiTrainingRow(ti, trainings, row, ti.row_num + 1)
    /\ UNCHANGED trainings
    /\ UNCHANGED <<importVars, backupVars, pureVars, paymentVars, examVars>>

\* INSERT of the added trainings in the order of db.add
RECURSIVE InsertTrainings(_, _)
InsertTrainings(tbl, pending) ==
    IF pending = <<>> THEN tbl
    ELSE InsertTrainings(Append(tbl, [Head(pending) EXCEPT !.id = Len(tbl) + 1]), Tail(pending))

\* the reader is exhausted: db.commit(), then the result or rollback and raise
TiCommit(dbfails) ==
    /\ ti.pc = "loop"
    /\ IF ~dbfails
       THEN /\ trainings' = InsertTrainings(trainings, ti.pending)
            /\ ti' = [ti EXCEPT !.pc = "returned", !.pending = <<>>,
                         !.result = [kind |-> "return",
                                     imported_count |-> ti.imported_count,
                                     errors |-> ti.errors,
                                     success |-> Success(ti.errors)]]
       ELSE /\ trainings' = trainings
            /\ ti' = [ti EXCEPT !.pc = "raised", !.pending = <<>>, !.result = [kind |-> "raise"]]
    /\ UNCHANGED <<importVars, backupVars, pureVars, paymentVars, examVars>>

---------------------------------------------------------------------------
(* GoogleDriveService._import_payments.  An amount is the text of the CSV  *)
(* field, a sequence of characters.                                        *)

DigitChars == {"0", "1", "5"}

\* the text is an optional-fraction decimal numeral
IsDecimal(s) ==
    /\ \A i \in DOMAIN s : s[i] \in DigitChars \cup {"."}
    /\ \E i \in DOMAIN s : s[i] \in DigitChars
    /\ Cardinality({i \in DOMAIN s : s[i] = "."}) <= 1

NanText == <<"n", "a", "n">>

\* the amount fields a CSV may hold
AmountStrings ==
    { <<"1", "0">>, <<"1", ".", "5">>, <<"a", "b">>, <<"1", ",", "5">>, NanText, Empty }

\* float(text) on the shapes of AmountStrings: a decimal numeral or the
\* literal nan; ok = FALSE is ValueError
FloatOf(s) ==
    IF IsDecimal(s) THEN [ok |-> TRUE, nan |-> FALSE, text |-> s]
    ELSE IF s = NanText THEN [ok |-> TRUE, nan |-> TRUE, text |-> s]
    ELSE [ok |-> FALSE, nan |-> FALSE, text |-> Empty]

\* datetime.now()
NowDateTime == [day |-> "now", time |-> "now"]

Payment(id, student_id, amount, payment_type, description, payment_date) ==
    [id |-> id, student_id |-> student_id, amount |-> amount, payment_type |-> payment_type,
     description |-> description, payment_date |-> payment_date]

PaymentRow(student_name, amount, payment_date) ==
    [student_name |-> student_name, amount |-> amount, payment_date |-> payment_date]

StudentXX == <<"X", " ", "X">>
StudentXB == <<"X", " ", "B">>
StudentUnknown == <<"Z", " ", "Z">>
StudentOneWord == <<"X">>

\* the data rows a payments CSV may hold (header student_name, amount, payment_date)
PaymentRowPool ==
    {PaymentRow(StudentXX, a, Empty) : a \in AmountStrings} \cup
    { PaymentRow(StudentXB, <<"1", ".", "5">>, <<Day1>>),
      PaymentRow(StudentXB, <<"1", "0">>, <<DayDotted>>),
      PaymentRow(StudentUnknown, <<"1", "0">>, Empty),
      PaymentRow(StudentUnknown, <<"a", "b">>, Empty),
      PaymentRow(StudentOneWord, <<"1", "0">>, Empty),
      PaymentRow(Empty, <<"1", "0">>, Empty) }

\* db.query(Student).filter(first_name == ..., last_name == ...).first(): the id, 0 for none
QueryStudentByName(tbl, first_name, last_name) ==
    IF \E i \in DOMAIN tbl : tbl[i].first_name = first_name /\ tbl[i].last_name = last_name
    THEN CHOOSE i \in DOMAIN tbl :
            /\ tbl[i].first_name = first_name /\ tbl[i].last_name = last_name
            /\ \A j \in DOMAIN tbl :
                  (tbl[j].first_name = first_name /\ tbl[j].last_name = last_name) => i <= j
    ELSE 0

\* payment_date: now, or the parsed field when it is there and parses
PaymentDate(row) ==
    IF Truthy(row.payment_date) /\ FromIsoformat(ReplaceZ(row.payment_date)).ok
    THEN DbDateTime(FromIsoformat(ReplaceZ(row.payment_date)))
    ELSE NowDateTime

\* _import_payments before it is called
PiIdle ==
    [pc |-> "idle", row_num |-> 0, row |-> PaymentRow(Empty, Empty, Empty),
     imported_count |-> 0, errors |-> <<>>, pending |-> <<>>, before |-> <<>>,
     result |-> [kind |-> "none"]]

\* amount = float(row['amount'])
PiAmount(row) == FloatOf(row.amount)

\* one pass of the loop body over data row number n
PiPaymentRow(t, tbl, row, n) ==
    LET t1 == [t EXCEPT !.row_num = n, !.row = row]
        name_parts == SplitOnce(row.student_name, 1)
    IN  IF ~Truthy(row.student_name) \/ ~Truthy(row.amount)
        THEN [t1 EXCEPT !.errors = Append(t.errors, ErrorEntry(n, "missing_field"))]
        ELSE IF Len(name_parts) # 2
        THEN [t1 EXCEPT !.errors = Append(t.errors, ErrorEntry(n, "bad_name"))]
        ELSE IF QueryStudentByName(tbl, name_parts[1], name_parts[2]) = 0
        THEN [t1 EXCEPT !.errors = Append(t.errors, ErrorEntry(n, "no_student"))]
        ELSE IF ~PiAmount(row).ok
        THEN [t1 EXCEPT !.errors = Append(t.errors, ErrorEntry(n, "bad_amount"))]
        ELSE [t1 EXCEPT
                !.pending = Append(t.pending,
                               Payment(0, QueryStudentByName(tbl, name_parts[1], name_parts[2]),
                                       PiAmount(row), <<"Monthly">>, Empty, PaymentDate(row))),
                !.imported_count = t.imported_count + 1]

\* import_from_csv_file / import_from_csv_url with data_type 'payments'
PiStart ==
    /\ pi.pc = "idle" /\ ti.pc = "idle"
    /\ pi' = [PiIdle EXCEPT !.pc = "loop", !.before = payments]
    /\ UNCHANGED <<payments, exams, bx>>
    /\ UNCHANGED <<importVars, backupVars, trainingVars, pureVars>>

\* the for loop reads one more data row
PiRow(row) ==
    /\ pi.pc = "loop"
    /\ pi.row_num < MaxRows
    /\ pi' = PiPaymentRow(pi, students, row, pi.row_num + 1)
    /\ UNCHANGED <<payments, exams, bx>>
    /\ UNCHANGED <<importVars, backupVars, trainingVars, pureVars>>

\* amount is Float nullable=False and SQLite binds a NaN as NULL
PaymentsInsertable(pending) == \A i \in DOMAIN pending : ~pending[i].amount.nan

\* INSERT of the added payments in the order of db.add
RECURSIVE InsertPayments(_, _)
InsertPayments(tbl, pending) ==
    IF pending = <<>> THEN tbl
    ELSE InsertPayments(Append(tbl, [Head(pending) EXCEPT !.id = Len(tbl) + 1]), Tail(pending))

\* the reader is exhausted: db.commit(), then the result or rollback and raise
PiCommit(dbfails) ==
    /\ pi.pc = "loop"
    /\ IF PaymentsInsertable(pi.pending) /\ ~dbfails
       THEN /\ payments' = InsertPayments(payments, pi.pending)
            /\ pi' = [pi EXCEPT !.pc = "returned", !.pending = <<>>,
                         !.result = [kind |-> "return",
                                     imported_count |-> pi.imported_count,
                                     errors |-> pi.errors,
                                     success |-> Success(pi.errors)]]
       ELSE /\ payments' = payments
            /\ pi' = [pi EXCEPT !.pc = "raised", !.pending = <<>>, !.result = [kind |-> "raise"]]
    /\ UNCHANGED <<exams, bx>>
    /\ UNCHANGED <<importVars, backupVars, trainingVars, pureVars>>

---------------------------------------------------------------------------
(* BeltExamController.create_belt_exam *)

Purple == <<"P", "u", "r", "p", "l", "e">>
Pass == "Pass"

\* the arguments of the calls
ExamStudentIds == {1, 2, 3}
ExamBelts == {Blue, Purple}
ExamResults == {Pass, "Fail", "pass"}

\* the commit of the call that raises, if any
ExamFailPoints == {"none", "exam_commit", "belt_commit"}

BeltExam(id, student_id, belt_color, result) ==
    [id |-> id, student_id |-> student_id, belt_color |-> belt_color, result |-> result]

\* the controller before its first call: no call made, every call so far
\* returned, the session usable, the students as they were
BxIdle == [calls |-> 0, clean |-> TRUE, sessOK |-> TRUE, before |-> <<>>]

\* a belt update that ignores the result
BeltAfterExam_AnyResult(tbl, student_id, belt_color, result) ==
    IF student_id \in DOMAIN tbl
    THEN [tbl EXCEPT ![student_id].current_belt = belt_color]
    ELSE tbl

\* the students table after the belt update of the call
BeltAfterExam(tbl, student_id, belt_color, result) ==
    IF result = Pass /\ student_id \in DOMAIN tbl
    THEN [tbl EXCEPT ![student_id].current_belt = belt_color]
    ELSE tbl

\* create_belt_exam(student_id, belt_color, exam_date, result); the exam is
\* committed on its own, then the belt; a commit that fails leaves the
\* session unusable and every later commit raises
CreateBeltExam(student_id, belt_color, result, fail) ==
    /\ bx.calls < MaxExams
    /\ fail = "belt_commit" => result = Pass /\ student_id \in DOMAIN students
    /\ IF ~bx.sessOK \/ fail = "exam_commit"
       THEN /\ exams' = exams
            /\ students' = students
            /\ bx' = [bx EXCEPT !.calls = bx.calls + 1, !.clean = FALSE, !.sessOK = FALSE]
       ELSE /\ exams' = Append(exams, BeltExam(Len(exams) + 1, student_id, belt_color, result))
            /\ IF fail = "belt_commit"
               THEN /\ students' = students
                    /\ bx' = [bx EXCEPT !.calls = bx.calls + 1, !.clean = FALSE, !.sessOK = FALSE]
               ELSE /\ students' = BeltAfterExam(students, student_id, belt_color, result)
                    /\ bx' = [bx EXCEPT !.calls = bx.calls + 1]
    /\ UNCHANGED <<gd, csv, payments, pi>>
    /\ UNCHANGED <<backupVars, trainingVars, pureVars>>

---------------------------------------------------------------------------
(* Specification of the import pipeline *)

BackupInit ==
    /\ clock = 0
    /\ liveDb = File(<<"0">>, 0)
    /\ appFiles = <<"f">>
    /\ backupDir = <<>>
    /\ safety = <<>>
    /\ bk = BkIdle

\* no trainings import and no validator call has happened yet
OtherInit ==
    /\ trainings = <<>>
    /\ ti = TiIdle
    /\ call = NoCall
    /\ payments = <<>>
    /\ pi = PiIdle
    /\ exams = <<>>
    /\ bx = BxIdle

Init ==
    /\ students \in InitStores
    /\ gd = GdIdle
    /\ csv = CsvIdle
    /\ BackupInit
    /\ OtherInit

ImportNext ==
    \/ \E h \in Headers : GdStart(h)
    \/ \E row \in RowsOf(gd.header) : GdRow(row)
    \/ \E dbfails \in BOOLEAN : GdCommit(dbfails)
    \/ \E h \in Headers, skip \in BOOLEAN : CsvStart(h, skip)
    \/ \E row \in RowsOf(csv.header) : CsvRow(row)
    \/ CsvEnd
    \/ CsvReadError

Spec == Init /\ [][ImportNext]_vars

---------------------------------------------------------------------------
(* Specification of two student imports running at once (two application   *)
(* processes on one database file): each step of a row loop is one step    *)
(* of the system, in any order.                                            *)

\* the rows both CSV sources hold
RaceRows ==
    { Row(NameA, NameB, Phone3, TgB, Mail1, Blue, Empty),
      Row(NameA, NameB, Phone2, Empty, Empty, White, Empty) }

RaceNext ==
    \/ GdOpen(FullHeader)
    \/ \E row \in RaceRows : GdRow(row)
    \/ GdCommit(FALSE)
    \/ \E skip \in BOOLEAN : CsvOpen(FullHeader, skip)
    \/ \E row \in RaceRows : CsvRow(row)
    \/ CsvEnd

SpecRace == Init /\ [][RaceNext]_vars

---------------------------------------------------------------------------
(* Specification of the belt exams *)

ExamsNext ==
    \E student_id \in ExamStudentIds, belt_color \in ExamBelts, result \in ExamResults,
       fail \in ExamFailPoints : CreateBeltExam(student_id, belt_color, result, fail)

ExamsBegin ==
    /\ students \in InitStores /\ gd = GdIdle /\ csv = CsvIdle /\ BackupInit
    /\ trainings = <<>> /\ ti = TiIdle /\ call = NoCall
    /\ payments = <<>> /\ pi = PiIdle /\ exams = <<>>
    /\ bx = [BxIdle EXCEPT !.before = students]

SpecExams == ExamsBegin /\ [][ExamsNext]_vars

---------------------------------------------------------------------------
(* Specification of the backup pipeline *)

BackupNext ==
    \/ Tick
    \/ \E b \in EditBytes : EditDb(b)
    \/ \E include_files \in BOOLEAN, fail \in CreateFailPoints, partial \in BOOLEAN :
          CreateBackup(include_files, fail, partial)
    \/ ListBackupsCall
    \/ \E info \in KnownRecords, restore_files \in BOOLEAN, fail \in RestoreFailPoints,
          partial \in BOOLEAN : RestoreBackup(info, restore_files, fail, partial)

BackupBegin == students = <<>> /\ gd = GdIdle /\ csv = CsvIdle /\ BackupInit /\ OtherInit

SpecBackup == BackupBegin /\ [][BackupNext]_vars

---------------------------------------------------------------------------
(* Specification of backup maintenance *)

MaintNext ==
    \/ DayPasses
    \/ \E include_files \in BOOLEAN, fail \in CreateFailPoints, partial \in BOOLEAN :
          CreateBackup(include_files, fail, partial)
    \/ \E include_files \in BOOLEAN : CreateBackupCut(include_files)
    \/ \E gone \in SUBSET ParsedSidecars(backupDir) : ListBackupsRacing(gone)
    \/ \E rec \in HeldRecords, failAt \in DeleteFailPoints : DeleteBackup(rec, failAt)
    \/ \E keep_days \in KeepDaysChoices, fails \in BOOLEAN, done \in SUBSET DOMAIN backupDir :
          CleanupOldBackups(keep_days, fails, done)

SpecMaint == BackupBegin /\ [][MaintNext]_vars

---------------------------------------------------------------------------
(* Specification of restores from records whose files may be gone *)

RestoreNext ==
    \/ Tick
    \/ \E b \in EditBytes : EditDb(b)
    \/ \E include_files \in BOOLEAN, fail \in CreateFailPoints, partial \in BOOLEAN :
          CreateBackup(include_files, fail, partial)
    \/ \E rec \in HeldRecords, failAt \in DeleteFailPoints : DeleteBackup(rec, failAt)
    \/ \E info \in KnownRecords, restore_files \in BOOLEAN, fail \in RestoreFailPoints,
          partial \in BOOLEAN : RestoreBackup(info, restore_files, fail, partial)

SpecRestore == BackupBegin /\ [][RestoreNext]_vars

---------------------------------------------------------------------------
(* Specification of the format validators and encoding detection *)

FormatNext ==
    \/ \E headers \in SUBSET ValidatorColumns, readable \in BOOLEAN :
          CsvValidateCall(headers, readable)
    \/ \E headers \in SUBSET ValidatorColumns, data_type \in DataTypes, readable \in BOOLEAN :
          GdValidateCsvFormat(headers, data_type, readable)
    \/ \E headers \in SUBSET ValidatorColumns, data_type \in DataTypes, readable \in BOOLEAN :
          GdValidateCsvFile(headers, data_type, readable)
    \/ \E data \in Prefixes, detected \in ChardetResults, io_error \in DetectIoErrors :
          DetectEncodingCall(data, detected, io_error)
    \/ ResultTaken

SpecFormat == BackupBegin /\ [][FormatNext]_vars

---------------------------------------------------------------------------
(* Specification of the trainings import *)

TrainingsNext ==
    \/ TiStart
    \/ \E row \in TrainingRowPool : TiRow(row)
    \/ \E dbfails \in BOOLEAN : TiCommit(dbfails)

TrainingsBegin ==
    /\ students = <<>> /\ gd = GdIdle /\ csv = CsvIdle /\ BackupInit
    /\ trainings \in TrainingStores /\ ti = TiIdle /\ call = NoCall
    /\ payments = <<>> /\ pi = PiIdle /\ exams = <<>> /\ bx = BxIdle

SpecTrainings == TrainingsBegin /\ [][TrainingsNext]_vars

---------------------------------------------------------------------------
(* Specification of the imports that resolve a name: trainings and payments *)

ReferencesNext ==
    \/ pi.pc = "idle" /\ TiStart
    \/ \E row \in TrainingRowPool : TiRow(row)
    \/ \E dbfails \in BOOLEAN : TiCommit(dbfails)
    \/ PiStart
    \/ \E row \in PaymentRowPool : PiRow(row)
    \/ \E dbfails \in BOOLEAN : PiCommit(dbfails)

ReferencesBegin ==
    /\ students \in InitStores /\ gd = GdIdle /\ csv = CsvIdle /\ BackupInit
    /\ trainings \in TrainingStores /\ ti = TiIdle /\ call = NoCall
    /\ payments = <<>> /\ pi = PiIdle /\ exams = <<>> /\ bx = BxIdle

SpecReferences == ReferencesBegin /\ [][ReferencesNext]_vars

---------------------------------------------------------------------------
(* Specification of the four importers, one import in a behaviour *)

NoImportRuns == gd.pc = "idle" /\ csv.pc = "idle" /\ ti.pc = "idle" /\ pi.pc = "idle"

ImportersNext ==
    \/ NoImportRuns /\ \E h \in Headers : GdOpen(h)
    \/ \E row \in RowsOf(gd.header) : GdRow(row)
    \/ \E dbfails \in BOOLEAN : GdCommit(dbfails)
    \/ NoImportRuns /\ \E h \in Headers, skip \in BOOLEAN : CsvOpen(h, skip)
    \/ \E row \in RowsOf(csv.header) : CsvRow(row)
    \/ CsvEnd
    \/ CsvReadError
    \/ NoImportRuns /\ TiStart
    \/ \E row \in TrainingRowPool : TiRow(row)
    \/ \E dbfails \in BOOLEAN : TiCommit(dbfails)
    \/ NoImportRuns /\ PiStart
    \/ \E row \in PaymentRowPool : PiRow(row)
    \/ \E dbfails \in BOOLEAN : PiCommit(dbfails)

\* every store of students, and a store of trainings that holds one
ImportersBegin ==
    /\ students \in InitStores /\ gd = GdIdle /\ csv = CsvIdle /\ BackupInit
    /\ trainings \in TrainingStores \ {<<>>} /\ ti = TiIdle /\ call = NoCall
    /\ payments = <<>> /\ pi = PiIdle /\ exams = <<>> /\ bx = BxIdle

SpecImporters == ImportersBegin /\ [][ImportersNext]_vars

---------------------------------------------------------------------------
(* Properties of the student import *)

LastRow(r) == r.rows[Len(r.rows)]
LastError(r) == r.errors[Len(r.errors)]

\* a step of the row loop of either importer
GdRowStep == gd.pc = "loop" /\ gd'.pc = "loop" /\ Len(gd'.rows) = Len(gd.rows) + 1
CsvRowStep == csv.pc = "loop" /\ csv'.pc = "loop" /\ Len(csv'.rows) = Len(csv.rows) + 1

\* the field is missing or blank once trimmed
FieldEmpty(row, col) ==
    LET v == Get(row, col, Empty) IN v = None \/ Strip(v) = Empty

EmptyRequired(row) ==
    FieldEmpty(row, "first_name") \/ FieldEmpty(row, "last_name") \/ FieldEmpty(row, "phone")

\* every column of the row holds text and the three required ones are not blank
RowComplete(row) ==
    /\ \A col \in StudentColumns : Get(row, col, Empty) # None
    /\ ~EmptyRequired(row)

\* C1: in both student importers a data row whose first_name, last_name or
\* phone is empty after trimming is rejected: the table and the session are
\* untouched, imported_count keeps its value and exactly one error entry
\* carrying that row's number is appended.
C1_EmptyRequiredRowRejected ==
    [][ /\ (GdRowStep /\ EmptyRequired(LastRow(gd')))
              => /\ students' = students
                 /\ gd'.pending = gd.pending /\ gd'.objs = gd.objs
                 /\ gd'.imported_count = gd.imported_count
                 /\ Len(gd'.errors) = Len(gd.errors) + 1
                 /\ LastError(gd').row = Len(gd'.rows)
        /\ (CsvRowStep /\ EmptyRequired(LastRow(csv')))
              => /\ students' = students
                 /\ csv'.imported_count = csv.imported_count
                 /\ Len(csv'.errors) = Len(csv.errors) + 1
                 /\ LastError(csv').row = CsvRowNum(Len(csv'.rows)) ]_vars

\* C2: with skip_duplicates a row (complete in its required fields) whose
\* phone is the phone of a stored Student raises skipped_count by one, inserts
\* nothing, leaves imported_count and every stored Student as they were.
C2_DuplicatePhoneSkipped ==
    [][ (/\ CsvRowStep /\ csv.skip_duplicates
         /\ RowComplete(LastRow(csv'))
         /\ QueryByPhone(students, Strip(LastRow(csv').phone)) # 0)
           => /\ csv'.skipped_count = csv.skipped_count + 1
              /\ csv'.imported_count = csv.imported_count
              /\ students' = students ]_vars

\* the row reaches the duplicate lookup of _import_students and the lookup
\* (phone first, then telegram_id) finds a stored Student
GdRowMatches(row, tbl) ==
    /\ ~GdMissingName(row)
    /\ Get(row, "telegram_id", Empty) # None /\ Get(row, "phone", Empty) # None
    /\ \E i \in DOMAIN tbl :
          \/ Strip(Get(row, "phone", Empty)) # Empty
               /\ tbl[i].phone = Strip(Get(row, "phone", Empty))
          \/ Strip(Get(row, "telegram_id", Empty)) # Empty
               /\ tbl[i].telegram_id = Strip(Get(row, "telegram_id", Empty))

\* C3: under update-on-match a row that matches a stored Student overwrites
\* that Student's first_name, last_name, phone (trimmed), email, current_belt
\* and notes with the row's values, keeps its id, adds no new Student and
\* touches no other Student; telegram_id changes only to a non-empty row value
\* that differs from the stored one.
C3_UpdateOnMatch ==
    [][ (GdRowStep /\ GdRowMatches(LastRow(gd'), students))
           => LET row == LastRow(gd')
                  m == gd'.matched
              IN  /\ m \in DOMAIN gd.objs
                  /\ gd'.objs[m].first_name = row.first_name
                  /\ gd'.objs[m].last_name = row.last_name
                  /\ gd'.objs[m].phone = Strip(Get(row, "phone", Empty))
                  /\ gd'.objs[m].email = Get(row, "email", Empty)
                  /\ gd'.objs[m].current_belt = Get(row, "current_belt", White)
                  /\ gd'.objs[m].notes = Get(row, "notes", Empty)
                  /\ gd'.objs[m].id = gd.objs[m].id
                  /\ gd'.pending = gd.pending
                  /\ gd'.imported_count = gd.imported_count
                  /\ DOMAIN gd'.objs = DOMAIN gd.objs
                  /\ \A i \in DOMAIN gd.objs : i # m => gd'.objs[i] = gd.objs[i]
                  /\ gd'.objs[m].telegram_id # gd.objs[m].telegram_id
                        => /\ Strip(Get(row, "telegram_id", Empty)) # Empty
                           /\ gd'.objs[m].telegram_id = Strip(Get(row, "telegram_id", Empty)) ]_vars

\* a matched Student was overwritten in the session and its telegram_id kept
C3_Witness ==
    /\ gd.pc = "loop" /\ gd.matched # 0
    /\ gd.objs[gd.matched].first_name = NameA
    /\ students[gd.matched].first_name = NameX
    /\ gd.objs[gd.matched].telegram_id = TgA
    /\ Strip(Get(LastRow(gd), "telegram_id", Empty)) = Empty

\* the row would be imported by an import that starts with it
CsvValidOnItsOwn(c, tbl, row) ==
    /\ RowComplete(row)
    /\ c.skip_duplicates => QueryByPhone(tbl, Strip(row.phone)) = 0
    /\ CreateStudent(tbl, CsvNewStudent(row, Len(tbl) + 1)).ok

\* C4: a failing row never aborts the batch: it adds one error entry and the
\* loop goes on, and a later row that is valid on its own is still imported.
C4_RowFailureIsolated ==
    [][ /\ (GdRowStep /\ Len(gd'.errors) # Len(gd.errors))
              => Len(gd'.errors) = Len(gd.errors) + 1
        /\ (GdRowStep /\ ~GdMissingName(LastRow(gd')) /\ ~GdRowRaises(LastRow(gd')))
              => /\ gd'.errors = gd.errors
                 /\ gd'.imported_count + gd'.updated_count = gd.imported_count + gd.updated_count + 1
        /\ (CsvRowStep /\ Len(csv'.errors) # Len(csv.errors))
              => Len(csv'.errors) = Len(csv.errors) + 1
        /\ (CsvRowStep /\ CsvValidOnItsOwn(csv, students, LastRow(csv')))
              => /\ csv'.errors = csv.errors
                 /\ csv'.imported_count = csv.imported_count + 1
                 /\ Len(students') = Len(students) + 1 ]_vars

\* C5: an import commits once, after the row loop: while the loop runs, and
\* after an import that raised or returned a failure, the table is the one
\* the import started from.
C5_SingleCommitAllOrNothing ==
    /\ gd.pc \in {"loop", "raised"} => students = gd.before
    /\ csv.pc = "loop" => students = csv.before
    /\ (csv.pc = "returned" /\ ~csv.result.success) => students = csv.before

\* the scenario of C6: three data rows under the full header, the first and
\* third complete and unrelated, the second lacking only its phone
ThreeRowScenario(h, rows) ==
    /\ h = FullHeader /\ Len(rows) = 3
    /\ RowComplete(rows[1]) /\ RowComplete(rows[3])
    /\ Strip(rows[1].phone) # Strip(rows[3].phone)
    /\ Strip(rows[1].telegram_id) # Strip(rows[3].telegram_id)
    /\ \A col \in StudentColumns : rows[2][col] # None
    /\ ~FieldEmpty(rows[2], "first_name") /\ ~FieldEmpty(rows[2], "last_name")
    /\ FieldEmpty(rows[2], "phone")

\* C6: importing that source into an empty table gives imported_count 2,
\* skipped_count 0 (where the importer counts skips) and one error entry, for row 2.
C6_ThreeRowImport ==
    /\ (gd.pc = "returned" /\ gd.before = <<>> /\ ThreeRowScenario(gd.header, gd.rows))
          => /\ gd.result.imported_count = 2
             /\ Len(gd.result.errors) = 1
             /\ gd.result.errors[1].row = 2
    /\ (csv.pc = "returned" /\ csv.result.success /\ csv.before = <<>>
          /\ ThreeRowScenario(csv.header, csv.rows))
          => /\ csv.result.imported_count = 2
             /\ csv.result.skipped_count = 0
             /\ Len(csv.result.errors) = 1
             /\ csv.result.errors[1].row = 2

\* C7: an import of a source whose header fails the format validation for
\* students (no header, or first_name, last_name or phone missing) writes
\* nothing: the table stays as it was.
C7_InvalidFormatNoWrite ==
    /\ (gd.pc # "idle" /\ ~ValidateCsvFormat(gd.header)) => students = gd.before
    /\ (csv.pc # "idle" /\ ~ValidateCsvFormat(csv.header))
          => students = csv.before /\ csv.rows = <<>> /\ ~csv.result.success

---------------------------------------------------------------------------
(* Properties of the backup pipeline *)

\* the paths a create_backup call at second ts is to write
CreatedPaths(ts, include_files) ==
    {DbPath(ts), MetadataPath(ts)} \cup (IF include_files THEN {FilesPath(ts)} ELSE {})

\* the paths whose entry a step created, replaced or removed
TouchedPaths ==
    {q \in DOMAIN backupDir \cup DOMAIN backupDir' :
        \/ q \notin DOMAIN backupDir
        \/ q \notin DOMAIN backupDir'
        \/ backupDir'[q] # backupDir[q]}

\* C8: a successful create_backup(include_files=False) writes (creates or
\* replaces) in the backup directory exactly the .db snapshot and the metadata
\* sidecar of its timestamp, the snapshot holding the live contents, and its
\* record has files_file null; with include_files=True it writes the .tar.gz
\* archive of that timestamp as well, names it in files_file and records its
\* size under file_sizes. Nothing else in the directory changes.
C8_CreateBackupFiles ==
    [][ \A include_files \in BOOLEAN :
          CreateBackup(include_files, "none", FALSE) =>
            LET ts == Timestamp(clock) IN
            /\ CreatedPaths(ts, include_files) \subseteq DOMAIN backupDir'
            /\ DOMAIN backupDir' = DOMAIN backupDir \cup CreatedPaths(ts, include_files)
            /\ TouchedPaths \subseteq CreatedPaths(ts, include_files)
            /\ backupDir'[DbPath(ts)] = liveDb
            /\ \E r \in bk'.issued :
                  /\ r.content = liveDb.data
                  /\ backupDir'[MetadataPath(ts)].data = r.info
                  /\ r.info.timestamp = ts
                  /\ r.info.db_file = DbPath(ts)
                  /\ r.info.include_files = include_files
                  /\ r.info.file_sizes["database"] = SizeOf(liveDb.data)
                  /\ ~include_files =>
                        r.info.files_file = NoPath /\ DOMAIN r.info.file_sizes = {"database"}
                  /\ include_files =>
                        /\ r.info.files_file = FilesPath(ts)
                        /\ backupDir'[FilesPath(ts)].data = TarOf(appFiles)
                        /\ r.info.file_sizes["files"] = SizeOf(backupDir'[FilesPath(ts)].data) ]_vars

\* both kinds of backup have been made, at different seconds
C8_Witness ==
    \E r1 \in bk.issued, r2 \in bk.issued :
        /\ ~r1.info.include_files /\ r2.info.include_files
        /\ r1.info.timestamp # r2.info.timestamp
        /\ r1.info.files_file = NoPath
        /\ FilesPath(r1.info.timestamp) \notin DOMAIN backupDir
        /\ r2.info.files_file \in DOMAIN backupDir
        /\ MetadataPath(r1.info.timestamp) \in DOMAIN backupDir

\* a step in which restore_backup wrote over the live database: a call of the
\* service (EditDb makes none) after which the live file differs
RestoreOverwrote == bk'.calls = bk.calls + 1 /\ liveDb' # liveDb

\* C9: in every restore_backup call that overwrites the live database,
\* whether the call then succeeds or fails (during the overwrite, leaving the
\* live file half written, or during the files extraction), the safety copy
\* of that call's second exists after the call and holds the contents the
\* live database had before the call.
C9_SafetyCopyBeforeOverwrite ==
    [][ RestoreOverwrote
          => /\ Timestamp(clock) \in DOMAIN safety'
             /\ safety'[Timestamp(clock)].data = liveDb.data ]_vars

\* a restore failed while overwriting and left the live file half written;
\* the safety copy holds the contents from before
C9_Witness ==
    /\ liveDb.data = Corrupt
    /\ \E ts \in DOMAIN safety : safety[ts].data # Corrupt /\ Len(safety[ts].data) > 1

\* C10: once create_backup has returned record r with the live database
\* holding C, a later restore_backup(r) leaves the live database holding C
\* (no step of any call having failed).
C10_RoundTrip ==
    [][ \A r \in bk.issued, restore_files \in BOOLEAN :
          (bk.faults = 0 /\ RestoreBackup(r.info, restore_files, "none", FALSE))
            => liveDb'.data = r.content ]_vars

---------------------------------------------------------------------------
(* Properties of backup maintenance *)

\* the step is the call op of the service, and the call returned
Returned(op) ==
    /\ bk'.calls = bk.calls + 1
    /\ bk'.last.op = op /\ bk'.last.n = bk'.calls
    /\ bk'.last.ok

ListStep ==
    /\ bk'.calls = bk.calls + 1
    /\ bk'.last.op = "list_backups" /\ bk'.last.n = bk'.calls

\* C12: list_backups returns, without raising, one record per sidecar that
\* parses as JSON and is still there, newest timestamp first; sidecars that
\* cannot be parsed or have disappeared are skipped and change nothing in
\* the other records.
C12_ListSkipsBadSidecars ==
    [][ ListStep =>
        /\ bk'.last.ok
        /\ LET ret == bk'.last.ret
               listed == ParsedSidecars(backupDir) \ bk'.last.gone IN
           /\ Len(ret) = Cardinality(listed)
           /\ {ret[i].metadata_file : i \in DOMAIN ret} = listed
           /\ \A i \in DOMAIN ret : ret[i].info = backupDir[ret[i].metadata_file].data
           /\ \A i \in DOMAIN ret, j \in DOMAIN ret :
                 i < j => ret[i].info.timestamp > ret[j].info.timestamp ]_vars

\* C13: after delete_backup(rec) returns, for a record from create_backup or
\* from list_backups, the snapshot and the archive the record names and the
\* sidecar of its timestamp are gone, and list_backups returns no record of
\* that timestamp.
C13_DeleteRemovesBackup ==
    [][ Returned("delete_backup") =>
        LET info == bk'.last.rec.info
            listed == ListBackups(backupDir') IN
        /\ info.db_file \notin DOMAIN backupDir'
        /\ info.files_file \notin DOMAIN backupDir'
        /\ MetadataPath(info.timestamp) \notin DOMAIN backupDir'
        /\ \A i \in DOMAIN listed : listed[i].info.timestamp # info.timestamp ]_vars

---------------------------------------------------------------------------
(* Properties of the student import result and identity resolution *)

\* C17: the result of a GoogleDriveService student import that returns
\* carries updated_count, the number of rows that matched an existing
\* Student, next to imported_count and the error list.
C17_ResultHasUpdatedCount ==
    gd.pc = "returned" =>
        /\ {"imported_count", "updated_count", "errors"} \subseteq DOMAIN gd.result
        /\ gd.result.updated_count = gd.updated_count
        /\ gd.result.imported_count = gd.imported_count
        /\ gd.result.errors = gd.errors

\* the table holds a Student with this phone
PhoneStored(tbl, phone) == phone # Empty /\ \E i \in DOMAIN tbl : tbl[i].phone = phone

\* the table holds a Student with this telegram_id
TelegramStored(tbl, tg) == tg # Empty /\ \E i \in DOMAIN tbl : tbl[i].telegram_id = tg

\* C19: the existing Student is found by phone first and by telegram_id
\* only when no Student has the row's phone: a row whose phone is Student
\* A's and whose telegram_id is another Student B's matches A, and B is
\* left as it was.
C19_PhoneBeforeTelegram ==
    [][ (GdRowStep /\ ~GdMissingName(LastRow(gd')) /\ ~GdRowRaises(LastRow(gd')))
           => LET phone == Strip(Get(LastRow(gd'), "phone", Empty))
                  tg == Strip(Get(LastRow(gd'), "telegram_id", Empty))
                  m == gd'.matched
              IN  /\ PhoneStored(students, phone)
                        => /\ m \in DOMAIN students
                           /\ students[m].phone = phone
                           /\ \A b \in DOMAIN students : b # m => gd'.objs[b] = gd.objs[b]
                  /\ (~PhoneStored(students, phone) /\ TelegramStored(students, tg))
                        => m \in DOMAIN students /\ students[m].telegram_id = tg
                  /\ (~PhoneStored(students, phone) /\ ~TelegramStored(students, tg))
                        => m = 0 ]_vars

\* a row with Student 2's phone and Student 1's telegram_id matched
\* Student 2 and left Student 1 alone
C19_Witness ==
    /\ gd.pc = "loop" /\ Len(gd.rows) = 1
    /\ Len(students) = 2
    /\ Strip(Get(LastRow(gd), "phone", Empty)) = students[2].phone
    /\ Strip(Get(LastRow(gd), "telegram_id", Empty)) = students[1].telegram_id
    /\ "telegram_id" \in DOMAIN LastRow(gd)
    /\ gd.matched = 2
    /\ gd.objs[1] = students[1]
    /\ gd.objs[2] # students[2]

\* the added students carry no telegram handle and collide neither on
\* phone nor on a missing name, among themselves or with the table
NoHandleBatch(tbl, pending) ==
    /\ Len(pending) >= 2
    /\ \A i \in DOMAIN pending :
          /\ pending[i].telegram_id \in {Empty, None}
          /\ pending[i].phone # None
          /\ \A j \in DOMAIN tbl : tbl[j].phone # pending[i].phone
          /\ \A j \in DOMAIN pending : i # j => pending[j].phone # pending[i].phone

\* C20: new Students whose row telegram_id is empty or a placeholder handle
\* are stored with no telegram_id, so a commit that only adds such students
\* (with distinct new phones) never fails on the telegram_id uniqueness
\* constraint, however many of them there are.
C20_PlaceholdersNeverCollide ==
    (gd.pc = "loop" /\ gd.objs = students /\ NoHandleBatch(students, gd.pending))
        => /\ \A i \in DOMAIN gd.pending : gd.pending[i].telegram_id = None
           /\ Flush(students, gd.objs, gd.pending).ok

---------------------------------------------------------------------------
(* Properties of format validation *)

\* the required columns of each entity type
EntityRequired ==
    [students |-> {"first_name", "last_name", "phone"},
     trainings |-> {"date", "trainer_name"},
     payments |-> {"student_name", "amount"}]

Validators ==
    {"CSVImportService.validate_csv_format", "GoogleDriveService.validate_csv_format",
     "GoogleDriveService.validate_csv_file"}

\* the columns an error result names
NamedColumns(ret) ==
    IF ret.error.kind = "missing" THEN {ret.error.fields[i] : i \in DOMAIN ret.error.fields}
    ELSE {}

\* C14: a validator that has read the header returns valid = true exactly
\* when the header holds every required column of the entity type (Student:
\* first_name, last_name, phone; Training: date, trainer_name; Payment:
\* student_name, amount), and otherwise valid = false with an error that
\* names the missing columns.
C14_ValidIffRequiredColumns ==
    (call.op \in Validators /\ call.readable /\ call.data_type \in DOMAIN EntityRequired) =>
        LET required == EntityRequired[call.data_type]
        IN  /\ call.ret.valid <=> required \subseteq call.headers
            /\ ~call.ret.valid => NamedColumns(call.ret) = required \ call.headers

---------------------------------------------------------------------------
(* Properties of the trainings import *)

\* a step of the trainings row loop
TiRowStep == ti.pc = "loop" /\ ti'.pc = "loop" /\ ti'.row_num = ti.row_num + 1

\* the row's date is empty or datetime.fromisoformat refuses it
DateUnparseable(row) == ~Truthy(row.date) \/ ~FromIsoformat(ReplaceZ(row.date)).ok

OnePerPair(tbl) ==
    \A i, j \in DOMAIN tbl :
        (tbl[i].date = tbl[j].date /\ tbl[i].trainer_id = tbl[j].trainer_id) => i = j

\* C16: a trainings import that returns leaves at most one Training per
\* (date, trainer) pair in the store if the store held at most one per pair
\* before it, whatever rows the CSV repeats.
C16_OneTrainingPerPair ==
    (ti.pc = "returned" /\ OnePerPair(ti.before)) => OnePerPair(trainings)

---------------------------------------------------------------------------
(* Properties of encoding detection *)

\* no encoding of the fallback list decodes the prefix
EveryProbeFails(data) ==
    \A i \in DOMAIN FallbackEncodings : ~Decodes(FallbackEncodings[i], data)

\* encoding e is the first of the fallback list that decodes the prefix
FirstThatDecodes(e, data) ==
    \E i \in DOMAIN FallbackEncodings :
        /\ FallbackEncodings[i] = e
        /\ Decodes(e, data)
        /\ \A j \in 1..(i - 1) : ~Decodes(FallbackEncodings[j], data)

\* C18: detect_encoding returns the detected encoding when the confidence
\* is at least 0.70; below 0.70 it returns the first of utf-8, windows-1251,
\* cp1251, iso-8859-1 that decodes the prefix, and utf-8 when every probe
\* fails; it returns utf-8 when an I/O error occurs.
C18_DetectEncoding ==
    call.op = "CSVImportService.detect_encoding" =>
        IF call.io_error = "open" THEN call.ret = "utf-8"
        ELSE IF call.detected.confidence >= 70
        THEN call.ret = call.detected.encoding
        ELSE IF call.io_error = "probe" \/ EveryProbeFails(call.data) THEN call.ret = "utf-8"
        ELSE FirstThatDecodes(call.ret, call.data)

\* a detection exactly at the threshold was returned although an earlier
\* encoding of the fallback list decodes the prefix
C18_Witness ==
    /\ call.op = "CSVImportService.detect_encoding"
    /\ call.io_error = "none"
    /\ call.detected = [encoding |-> "windows-1251", confidence |-> 70]
    /\ call.data = <<"a", "u">>
    /\ call.ret = "windows-1251"

---------------------------------------------------------------------------
(* Properties of the imports that resolve a name *)

\* a step of the payments row loop
PiRowStep == pi.pc = "loop" /\ pi'.pc = "loop" /\ pi'.row_num = pi.row_num + 1

\* the name is 'first last' of a row of the table
TrainerResolves(name) ==
    Len(SplitOnce(name, 1)) = 2
       /\ QueryTrainer(SplitOnce(name, 1)[1], SplitOnce(name, 1)[2]) # 0

StudentResolves(tbl, name) ==
    Len(SplitOnce(name, 1)) = 2
       /\ QueryStudentByName(tbl, SplitOnce(name, 1)[1], SplitOnce(name, 1)[2]) # 0

\* C21: a trainings row whose trainer_name does not resolve, a payments row
\* whose student_name does not resolve and a payments row whose amount is
\* not a number add exactly one row error, add nothing to the session, leave
\* imported_count as it was, and the loop goes on.
C21_UnresolvedRowRejected ==
    [][ /\ (TiRowStep /\ ~TrainerResolves(ti'.row.trainer_name)) =>
              /\ Len(ti'.errors) = Len(ti.errors) + 1
              /\ ti'.errors[Len(ti'.errors)].row = ti'.row_num
              /\ ti'.pending = ti.pending
              /\ ti'.imported_count = ti.imported_count
        /\ (PiRowStep /\ (~StudentResolves(students, pi'.row.student_name)
                              \/ ~IsDecimal(pi'.row.amount))) =>
              /\ Len(pi'.errors) = Len(pi.errors) + 1
              /\ pi'.errors[Len(pi'.errors)].row = pi'.row_num
              /\ pi'.pending = pi.pending
              /\ pi'.imported_count = pi.imported_count ]_vars

---------------------------------------------------------------------------
(* Properties of failed and repeated backups *)

\* the .db snapshots of the directory that have no metadata sidecar
OrphanSnapshots(dir) ==
    {q \in DOMAIN dir : q[1] = DbPath(0)[1] /\ MetadataPath(q[2]) \notin DOMAIN dir}

\* the db_file of every record list_backups returns
ListedDbFiles(dir) == {ListBackups(dir)[i].info.db_file : i \in DOMAIN ListBackups(dir)}

\* C22: a create_backup that raises in the database copy or in the files
\* archive writes or changes no metadata sidecar and removes no entry of the
\* backup directory (after a failed archive the .db snapshot of the call is
\* there); and list_backups never returns a record for a snapshot without a
\* sidecar.
C22_FailedCreateLeavesOrphan ==
    /\ [](OrphanSnapshots(backupDir) \cap ListedDbFiles(backupDir) = {})
    /\ [][\A include_files \in BOOLEAN, fail \in {"db_copy", "archive"}, partial \in BOOLEAN :
            CreateBackup(include_files, fail, partial) =>
               /\ DOMAIN backupDir \subseteq DOMAIN backupDir'
               /\ \A q \in DOMAIN backupDir' :
                     q[1] = MetadataPath(0)[1] => q \in DOMAIN backupDir /\ backupDir'[q] = backupDir[q]
               /\ fail = "archive" =>
                     /\ DbPath(Timestamp(clock)) \in DOMAIN backupDir'
                     /\ backupDir'[DbPath(Timestamp(clock))] = liveDb ]_vars

\* one call has been made, it left a complete .db snapshot without a sidecar,
\* and list_backups returns nothing
C22_Witness ==
    /\ bk.calls = 1 /\ bk.faults = 1
    /\ \E q \in OrphanSnapshots(backupDir) : backupDir[q] = liveDb
    /\ ListBackups(backupDir) = <<>>

\* the records of list_backups whose db_file is not in the directory
DanglingRecords(dir) ==
    {i \in DOMAIN ListBackups(dir) :
        /\ ListBackups(dir)[i].info.db_file # NoPath
        /\ ListBackups(dir)[i].info.db_file \notin DOMAIN dir}

\* C23: cleanup_old_backups sweeps entries, not backups: when a listed
\* backup's .db snapshot is older than the cutoff and its metadata sidecar
\* is not, the sweep removes the snapshot and keeps the sidecar, and
\* list_backups goes on returning the record.
C23_CleanupSplitsBackup ==
    [][ Returned("cleanup_old_backups") =>
        LET cutoff == clock - bk'.last.keep_days * DaySeconds IN
        \A i \in DOMAIN ListBackups(backupDir) :
           LET rec == ListBackups(backupDir)[i] IN
           (/\ rec.info.db_file \in DOMAIN backupDir
            /\ backupDir[rec.info.db_file].mtime < cutoff
            /\ backupDir[rec.metadata_file].mtime >= cutoff) =>
               /\ rec.info.db_file \notin DOMAIN backupDir'
               /\ rec.metadata_file \in DOMAIN backupDir'
               /\ \E j \in DanglingRecords(backupDir') : ListBackups(backupDir')[j] = rec ]_vars

\* a cleanup has returned and list_backups returns a record whose .db
\* snapshot is gone
C23_Witness ==
    /\ bk.last.op = "cleanup_old_backups" /\ bk.last.ok /\ bk.last.n = bk.calls
    /\ bk.last.ret > 0
    /\ DanglingRecords(backupDir) # {}

---------------------------------------------------------------------------
(* Properties of two imports running at once *)

\* C24: two imports are not kept apart.  Their row loops interleave, each
\* lookup reads what the other has committed so far and nothing of what it
\* has only added to its session; the uniqueness constraint of the store is
\* the one guard: no phone is ever stored twice, and an import that added a
\* Student whose phone the other import committed in the meantime fails at
\* its commit as a whole.
C24_ImportsInterleave ==
    /\ [](\A i, j \in DOMAIN students : students[i].phone = students[j].phone => i = j)
    /\ [][ (gd.pc = "loop" /\ gd'.pc # "loop"
             /\ \E i \in DOMAIN gd.pending : PhoneStored(students, gd.pending[i].phone))
               => gd'.pc = "raised" /\ students' = students ]_vars

\* both loops are running; the first import added a Student for a phone that
\* was in no store, the second import then passed its duplicate lookup for
\* the same phone and committed it, and the first import's next row matched
\* the Student the second had committed
C24_Witness ==
    /\ gd.pc = "loop" /\ csv.pc = "loop" /\ csv.skip_duplicates
    /\ Len(gd.rows) = 2
    /\ gd.matched > Len(gd.before) /\ gd.matched > Len(csv.before)
    /\ gd.matched \in DOMAIN students
    /\ \E i \in DOMAIN gd.pending : gd.pending[i].phone = students[gd.matched].phone

---------------------------------------------------------------------------
(* Properties of the belt exams *)

\* the ids of the student's exams with result Pass
PassExams(tbl, student_id) ==
    {i \in DOMAIN tbl : tbl[i].student_id = student_id /\ tbl[i].result = "Pass"}

\* the belt_color of the student's most recently created Pass exam, the
\* initial belt when there is none
LastPassBelt(tbl, student_id, initial) ==
    IF PassExams(tbl, student_id) = {} THEN initial
    ELSE tbl[CHOOSE i \in PassExams(tbl, student_id) :
                 \A j \in PassExams(tbl, student_id) : j <= i].belt_color

---------------------------------------------------------------------------
(* Properties of repeated rows *)

\* C26: within one run of the update-on-match import, at most one Student
\* is added to the session for a non-empty phone: a second row with the
\* phone of a Student the run has added is resolved as a match, so the
\* batch never holds the phone twice and the commit does not fail on the
\* phone uniqueness constraint.
C26_RepeatedPhoneResolved ==
    gd.pc = "loop" =>
        \A i, j \in DOMAIN gd.pending :
            (gd.pending[i].phone = gd.pending[j].phone
                /\ gd.pending[i].phone \notin {Empty, None}) => i = j

---------------------------------------------------------------------------
(* Properties of backups made in quick succession *)

\* C27: every create_backup that returns adds exactly one record to what
\* list_backups returns and leaves every file that was in the backup
\* directory as it was, also when an earlier create_backup returned within
\* the same clock second.
C27_CreateAddsOneRecord ==
    [][ \A include_files \in BOOLEAN :
          CreateBackup(include_files, "none", FALSE) =>
             /\ Len(ListBackups(backupDir')) = Len(ListBackups(backupDir)) + 1
             /\ \A q \in DOMAIN backupDir :
                   q \in DOMAIN backupDir' /\ backupDir'[q] = backupDir[q] ]_vars

---------------------------------------------------------------------------
(* Properties of restores from records whose files may be gone *)

\* C28: a restore_backup that returns True has left the live database file
\* holding the contents of the record's snapshot; for a record that names
\* no db_file, or one that is no longer in the backup directory, the call
\* does not return True.
C28_RestoreTrueMeansRestored ==
    [][ \A info \in KnownRecords, restore_files \in BOOLEAN, fail \in RestoreFailPoints,
           partial \in BOOLEAN :
          (/\ RestoreBackup(info, restore_files, fail, partial)
           /\ RestoreBackupEffect(backupDir, liveDb, safety, appFiles, info, clock,
                                  restore_files, fail, partial).ok)
             => /\ info.db_file # NoPath
                /\ info.db_file \in DOMAIN backupDir
                /\ liveDb'.data = backupDir[info.db_file].data ]_vars

---------------------------------------------------------------------------
(* Properties of the importers' results *)

\* C29: row accounting.  In each of the four importers every data row read
\* is counted exactly once: imported_count + updated_count + skipped_count
\* + the number of error entries is the number of data rows read, a count
\* the importer does not keep taken as 0.
C29_RowAccounting ==
    /\ gd.imported_count + gd.updated_count + Len(gd.errors) = Len(gd.rows)
    /\ csv.imported_count + csv.skipped_count + Len(csv.errors) = Len(csv.rows)
    /\ ti.imported_count + Len(ti.errors) = ti.row_num
    /\ pi.imported_count + Len(pi.errors) = pi.row_num

\* an import with skip_duplicates has returned after three rows: one
\* imported, one skipped, one rejected
C29_Witness ==
    /\ csv.pc = "returned" /\ csv.skip_duplicates /\ Len(csv.rows) = 3
    /\ csv.result.kind = "return"
    /\ csv.result.imported_count = 1
    /\ csv.result.skipped_count = 1
    /\ Len(csv.result.errors) = 1

\* C30: a GoogleDriveService importer that returns sets success to True
\* exactly when its error list is empty, and has committed the rows it
\* counted as imported whether success is True or False.
C30_SuccessIffNoErrors ==
    /\ gd.pc = "returned" =>
          /\ gd.result.success <=> gd.result.errors = <<>>
          /\ Len(students) = Len(gd.before) + gd.result.imported_count
    /\ ti.pc = "returned" =>
          /\ ti.result.success <=> ti.result.errors = <<>>
          /\ Len(trainings) = Len(ti.before) + ti.result.imported_count
    /\ pi.pc = "returned" =>
          /\ pi.result.success <=> pi.result.errors = <<>>
          /\ Len(payments) = Len(pi.before) + pi.result.imported_count

\* a students import returned success False after it committed a new Student
C30_Witness ==
    /\ gd.pc = "returned"
    /\ ~gd.result.success
    /\ gd.result.imported_count > 0
    /\ Len(students) > Len(gd.before)

============================================================================
